---- MODULE Spec2Model ----
(***************************************************************************)
(* Backtest simulation core of stock-backtest-system:                      *)
(*   Portfolio accounting   (backend/app/services/strategy.py)             *)
(*   BacktestEngine.run     (backend/app/services/engine.py)               *)
(*                                                                         *)
(* Python floats are modelled as exact rationals <<n, d>> in lowest terms  *)
(* with d > 0, so every statement below is about the code's arithmetic     *)
(* without rounding.  Quantities are counted in units of 5e-10 shares, so  *)
(* that the code's snap threshold 1e-9 is EPS = 2 units and residuals      *)
(* strictly between 0 and the threshold occur.                             *)
(***************************************************************************)
EXTENDS Integers, Sequences, FiniteSets, TLC

VARIABLES
    portfolio,   \* the Portfolio object of the run (strategy.py:58-71)
    lastCall,    \* the last Portfolio method call: name, arguments, return value
    nCalls,      \* number of Portfolio method calls made by the caller so far
    made,        \* number of Portfolio objects constructed
    engine,      \* the BacktestEngine attributes initial_capital, commission_rate
    pc,          \* position inside BacktestEngine.run / the strategy callbacks
    data,        \* the argument of run: symbol -> frame, in dict order
    prepared_data, \* run's local prepared_data
    trading_dates, \* run's local trading_dates (sorted sequence)
    dateIdx,     \* index of the loop variable `date` in trading_dates
    callbacks,   \* the strategy callbacks invoked so far, in order
    error,       \* the message of the ValueError raised by run, "" if none
    strategy,    \* the Strategy instance of the engine: class, indicators(),
                 \* and the attributes it keeps between callbacks
    CUSTOM_INDICATORS, \* the module-level registry of indicators.py (names)
    runs,        \* the calls of run so far: the strategy instance as it was on
                 \* entry and the Portfolio returned (NoPortfolio until then)
    metrics      \* the last result of a performance.py function, with its name

vars == <<portfolio, lastCall, nCalls, made, engine, pc, data, prepared_data,
          trading_dates, dateIdx, callbacks, error, strategy,
          CUSTOM_INDICATORS, runs, metrics>>

portfolioVars == <<portfolio, lastCall, nCalls>>
sessionVars == <<strategy, CUSTOM_INDICATORS, runs, metrics>>
engineVars == <<made, engine, pc, data, prepared_data, trading_dates, dateIdx,
                callbacks, error, strategy, CUSTOM_INDICATORS, runs,
                metrics>>

----------------------------------------------------------------------------
(* Bounds *)

MaxQty == 3        \* order quantities are 1..MaxQty units
MaxCalls == 3      \* Portfolio method calls per behaviour (standalone use)
MaxOrders == 1     \* Portfolio method calls a strategy makes per run
MaxDate == 3       \* timestamps are the days 1..MaxDate

Symbols == {"A", "B"}
Prices == {1, 2}
Quantities == 1..MaxQty
Dates == 1..MaxDate

----------------------------------------------------------------------------
(* Exact rational arithmetic standing in for float arithmetic *)

Abs(x) == IF x < 0 THEN -x ELSE x

RECURSIVE GCD(_, _)
GCD(a, b) == IF b = 0 THEN a ELSE GCD(b, a % b)

Norm(n, d) ==
    LET g == GCD(Abs(n), Abs(d))
        s == IF d < 0 THEN -1 ELSE 1
    IN  <<(s * n) \div g, (s * d) \div g>>

F(n) == <<n, 1>>
Zero == F(0)
RAdd(x, y) == Norm(x[1] * y[2] + y[1] * x[2], x[2] * y[2])
RSub(x, y) == Norm(x[1] * y[2] - y[1] * x[2], x[2] * y[2])
RMul(x, y) == Norm(x[1] * y[1], x[2] * y[2])
RDiv(x, y) == Norm(x[1] * y[2], x[2] * y[1])
RLt(x, y) == x[1] * y[2] < y[1] * x[2]
RLe(x, y) == x[1] * y[2] <= y[1] * x[2]
RGt(x, y) == RLt(y, x)
RGe(x, y) == RLe(y, x)

\* The literal 1e-9 of strategy.py:153, in quantity units (1 unit = 5e-10).
EPS == 2

\* The (initial_capital, commission_rate) pairs a Portfolio is built with.
Params ==
    {[initial_capital |-> F(4), commission_rate |-> Zero],
     [initial_capital |-> F(10), commission_rate |-> Norm(1, 10)]}

----------------------------------------------------------------------------
(* Dates: a Timestamp is a day number; strftime("%Y-%m-%d") renders it.    *)
(* The rendered string is modelled by its fields <<year, month, day>>;     *)
(* day 1 is 2023-12-30, so the days cross a month and a year boundary.     *)

strftime(d) ==
    IF d <= 2 THEN <<2023, 12, 29 + d>> ELSE <<2024, 1, d - 2>>

\* Python's < on two "%Y-%m-%d" strings (lexicographic, fields zero padded)
StrLt(a, b) ==
    \/ a[1] < b[1]
    \/ a[1] = b[1] /\ a[2] < b[2]
    \/ a[1] = b[1] /\ a[2] = b[2] /\ a[3] < b[3]

DateStrs == {strftime(d) : d \in Dates}

----------------------------------------------------------------------------
(* strategy.py: Side, Trade, Position, Portfolio *)

BUY == "BUY"
SELL == "SELL"

Trade(symbol, side, quantity, price, commission, date) ==
    [symbol |-> symbol, side |-> side, quantity |-> quantity,
     price |-> price, commission |-> commission, date |-> date]

\* Position(symbol=symbol): the dataclass defaults
Position(symbol) ==
    [symbol |-> symbol, quantity |-> Zero, avg_price |-> Zero,
     cost_basis |-> Zero]

is_open(position) == RGt(position.quantity, Zero)

\* Faulty variant of the valuation: the book value is returned.
market_value_CostBasis(position, current_price) == position.cost_basis

market_value(position, current_price) ==
    RMul(position.quantity, current_price)

\* Portfolio(initial_capital=..., commission_rate=...) with __post_init__
\* Faulty variant of the construction: a run after the first is handed the
\* Portfolio of the run before it.
Portfolio_CarriedOver(initial_capital, commission_rate) ==
    IF made > 0 THEN portfolio
    ELSE [initial_capital |-> initial_capital,
          commission_rate |-> commission_rate,
          cash |-> initial_capital,
          positions |-> <<>>,
          trades |-> <<>>,
          equity_history |-> <<>>]

Portfolio(initial_capital, commission_rate) ==
    LET cash0 == Zero
    IN  [initial_capital |-> initial_capital,
         commission_rate |-> commission_rate,
         cash |-> IF cash0 = Zero THEN initial_capital ELSE cash0,
         positions |-> <<>>,
         trades |-> <<>>,
         equity_history |-> <<>>]

\* The positions dict is a sequence of Position records in insertion order.
HasPosition(pf, symbol) ==
    \E i \in 1..Len(pf.positions) : pf.positions[i].symbol = symbol

PositionIndex(pf, symbol) ==
    CHOOSE i \in 1..Len(pf.positions) : pf.positions[i].symbol = symbol

PositionOf(pf, symbol) == pf.positions[PositionIndex(pf, symbol)]

PositionSymbols(pf) == {pf.positions[i].symbol : i \in 1..Len(pf.positions)}

\* get_position: the portfolio after the call (the entry is created lazily)
get_position(pf, symbol) ==
    IF ~HasPosition(pf, symbol)
    THEN [pf EXCEPT !.positions = Append(@, Position(symbol))]
    ELSE pf

\* An optional Trade: None is the empty sequence, a trade t is <<t>>.
None == <<>>

\* Faulty variants of the funds check: the commission is left out of the comparison;
\* the comparison is made against initial_capital instead of cash.
insufficient_cash_NoCommission(pf, cost, commission) ==
    RGt(cost, pf.cash)

insufficient_cash_InitialCapital(pf, cost, commission) ==
    RGt(RAdd(cost, commission), pf.initial_capital)

\* strategy.py:107  `if total_cost > self.cash`
insufficient_cash(pf, cost, commission) ==
    RGt(RAdd(cost, commission), pf.cash)

\* Faulty variant of the buy bookkeeping: avg_price is set to the price of this buy.
bought_LastPrice(position, quantity, cost) ==
    [position EXCEPT
       !.avg_price = RDiv(cost, quantity),
       !.quantity = RAdd(position.quantity, quantity),
       !.cost_basis = RAdd(position.cost_basis, cost)]

\* strategy.py:112-116: the position after an accepted buy
bought(position, quantity, cost) ==
    LET new_cost_basis == RAdd(position.cost_basis, cost)
        new_quantity == RAdd(position.quantity, quantity)
    IN  [position EXCEPT
           !.avg_price = IF RGt(new_quantity, Zero)
                         THEN RDiv(new_cost_basis, new_quantity)
                         ELSE Zero,
           !.quantity = new_quantity,
           !.cost_basis = new_cost_basis]

\* Faulty variant of the trade logging: the trade is inserted at the front.
append_trade_Front(trades, trade) == <<trade>> \o trades

\* strategy.py:122, 162  `self.trades.append(trade)`
append_trade(trades, trade) == Append(trades, trade)

buy(pf, symbol, quantity, price, date) ==
    LET cost == RMul(quantity, price)
        commission == RMul(cost, pf.commission_rate)
        total_cost == RAdd(cost, commission)
    IN  IF insufficient_cash(pf, cost, commission)
        THEN [pf |-> pf, ret |-> None]
        ELSE
          LET pf1 == get_position([pf EXCEPT !.cash = RSub(@, total_cost)],
                                  symbol)
              i == PositionIndex(pf1, symbol)
              trade == Trade(symbol, BUY, quantity, price, commission, date)
          IN  [pf |-> [pf1 EXCEPT
                         !.positions[i] = bought(@, quantity, cost),
                         !.trades = append_trade(@, trade)],
               ret |-> <<trade>>]

\* Faulty variant of the shares check: the order is compared with the wrong field.
insufficient_shares_CostBasis(position, quantity) ==
    RGt(quantity, position.cost_basis)

\* Faulty variant of the shares check: an order is rejected only when
\* nothing is held.
insufficient_shares_OnlyWhenFlat(position, quantity) ==
    position.quantity = Zero

\* strategy.py:139  `if quantity > position.quantity`
insufficient_shares(position, quantity) ==
    RGt(quantity, position.quantity)

\* Faulty variants of the sell bookkeeping: avg_price is not reset when the position
\* is snapped flat; the snap uses <= instead of <.
sold_KeepAvgPrice(position, quantity) ==
    LET sell_ratio == RDiv(quantity, position.quantity)
        reduced ==
            [position EXCEPT
               !.cost_basis = RSub(@, RMul(@, sell_ratio)),
               !.quantity = RSub(@, quantity)]
    IN  IF RLt(reduced.quantity, F(EPS))
        THEN [reduced EXCEPT !.quantity = Zero, !.cost_basis = Zero]
        ELSE reduced

\* Faulty variant of the sell bookkeeping: the cost basis is left as it was.
sold_NoCostReduction(position, quantity) ==
    LET reduced == [position EXCEPT !.quantity = RSub(@, quantity)]
    IN  IF RLt(reduced.quantity, F(EPS))
        THEN [reduced EXCEPT !.quantity = Zero,
                             !.cost_basis = Zero,
                             !.avg_price = Zero]
        ELSE reduced

sold_SnapAtThreshold(position, quantity) ==
    LET sell_ratio == RDiv(quantity, position.quantity)
        reduced ==
            [position EXCEPT
               !.cost_basis = RSub(@, RMul(@, sell_ratio)),
               !.quantity = RSub(@, quantity)]
    IN  IF RLe(reduced.quantity, F(EPS))
        THEN [reduced EXCEPT !.quantity = Zero,
                             !.cost_basis = Zero,
                             !.avg_price = Zero]
        ELSE reduced

\* strategy.py:149-156: the position after an accepted sell
sold(position, quantity) ==
    LET sell_ratio == RDiv(quantity, position.quantity)
        reduced ==
            [position EXCEPT
               !.cost_basis = RSub(@, RMul(@, sell_ratio)),
               !.quantity = RSub(@, quantity)]
    IN  IF RLt(reduced.quantity, F(EPS))
        THEN [reduced EXCEPT !.quantity = Zero,
                             !.cost_basis = Zero,
                             !.avg_price = Zero]
        ELSE reduced

\* Faulty variant of the sell: cash is credited with the gross revenue.
sell_GrossRevenue(pf, symbol, quantity, price, date) ==
    LET pf1 == get_position(pf, symbol)
        i == PositionIndex(pf1, symbol)
    IN  IF insufficient_shares(pf1.positions[i], quantity)
        THEN [pf |-> pf1, ret |-> None]
        ELSE
          LET revenue == RMul(quantity, price)
              commission == RMul(revenue, pf.commission_rate)
              trade == Trade(symbol, SELL, quantity, price, commission, date)
          IN  [pf |-> [pf1 EXCEPT
                         !.cash = RAdd(@, revenue),
                         !.positions[i] = sold(@, quantity),
                         !.trades = append_trade(@, trade)],
               ret |-> <<trade>>]

\* strategy.py:125-163  Portfolio.sell
sell(pf, symbol, quantity, price, date) ==
    LET pf1 == get_position(pf, symbol)
        i == PositionIndex(pf1, symbol)
    IN  IF insufficient_shares(pf1.positions[i], quantity)
        THEN [pf |-> pf1, ret |-> None]
        ELSE
          LET revenue == RMul(quantity, price)
              commission == RMul(revenue, pf.commission_rate)
              net_revenue == RSub(revenue, commission)
              trade == Trade(symbol, SELL, quantity, price, commission, date)
          IN  [pf |-> [pf1 EXCEPT
                         !.cash = RAdd(@, net_revenue),
                         !.positions[i] = sold(@, quantity),
                         !.trades = append_trade(@, trade)],
               ret |-> <<trade>>]

\* current_prices is a function from a set of symbols to prices.
RECURSIVE EquityLoop(_, _, _, _)
EquityLoop(positions, i, current_prices, equity) ==
    IF i > Len(positions) THEN equity
    ELSE LET position == positions[i]
             symbol == position.symbol
         IN  EquityLoop(positions, i + 1, current_prices,
                 IF is_open(position) /\ symbol \in DOMAIN current_prices
                 THEN RAdd(equity,
                           market_value(position,
                                        F(current_prices[symbol])))
                 ELSE equity)

total_equity(pf, current_prices) ==
    EquityLoop(pf.positions, 1, current_prices, pf.cash)

record_equity(pf, date, current_prices) ==
    LET equity == total_equity(pf, current_prices)
    IN  [pf EXCEPT !.equity_history =
            Append(@, [date |-> date, equity |-> equity, cash |-> pf.cash])]

----------------------------------------------------------------------------
(* Portfolio method calls.  The caller is either a client that owns a      *)
(* Portfolio directly (pc = "standalone", as in tests/test_strategy.py) or *)
(* the strategy inside one of its callbacks during BacktestEngine.run.     *)

NoDate == <<0, 0, 0>>
NoPrices == [s \in {} |-> 0]

\* `before` is the Portfolio as it was when the call was made.
CallRecord(op, symbol, quantity, price, date, prices, ret, value) ==
    [op |-> op, symbol |-> symbol, quantity |-> quantity, price |-> price,
     date |-> date, prices |-> prices, ret |-> ret, value |-> value,
     before |-> portfolio]

NoPortfolio ==
    [initial_capital |-> Zero, commission_rate |-> Zero, cash |-> Zero,
     positions |-> <<>>, trades |-> <<>>, equity_history |-> <<>>]

NoCall ==
    [op |-> "none", symbol |-> "", quantity |-> 0, price |-> 0,
     date |-> NoDate, prices |-> NoPrices, ret |-> None, value |-> Zero,
     before |-> NoPortfolio]

\* A Strategy instance (strategy.py:196-277): its class, what its
\* indicators() returns (the base class returns []), and the counter a
\* subclass may keep between callbacks.
StrategyInstance(cls, indicators) ==
    [cls |-> cls, indicators |-> indicators, _bar_count |-> 0]

NoStrategy == StrategyInstance("", <<>>)

\* a Strategy subclass whose callbacks may make any Portfolio call
UserStrategy == StrategyInstance("Strategy", <<>>)

NoMetrics == [op |-> "none"]

InCallback == pc \in {"on_start", "on_bar", "on_end"}

\* The date string the caller stamps on an order: inside on_bar it is the
\* date_str argument of the callback, elsewhere any date string.
CallDates ==
    IF pc = "on_bar" THEN {strftime(trading_dates[dateIdx])}
    ELSE {strftime(1)}

\* The price maps a caller passes to total_equity / record_equity: a quote
\* table restricted to any subset of the symbols.
Quote(symbol) == IF symbol = "A" THEN 2 ELSE 1
PriceMaps == {[s \in S |-> Quote(s)] : S \in SUBSET Symbols}

GetPosition(symbol) ==
    /\ portfolio' = get_position(portfolio, symbol)
    /\ lastCall' = CallRecord("get_position", symbol, 0, 0, NoDate, NoPrices,
                              None, Zero)
    /\ nCalls' = nCalls + 1

Buy(symbol, quantity, price, date) ==
    LET r == buy(portfolio, symbol, F(quantity), F(price), date)
    IN  /\ portfolio' = r.pf
        /\ lastCall' = CallRecord("buy", symbol, quantity, price, date,
                                  NoPrices, r.ret, Zero)
        /\ nCalls' = nCalls + 1

Sell(symbol, quantity, price, date) ==
    LET r == sell(portfolio, symbol, F(quantity), F(price), date)
    IN  /\ portfolio' = r.pf
        /\ lastCall' = CallRecord("sell", symbol, quantity, price, date,
                                  NoPrices, r.ret, Zero)
        /\ nCalls' = nCalls + 1

TotalEquity(current_prices) ==
    /\ portfolio' = portfolio
    /\ lastCall' = CallRecord("total_equity", "", 0, 0, NoDate, current_prices,
                              None, total_equity(portfolio, current_prices))
    /\ nCalls' = nCalls + 1

RecordEquity(date, current_prices) ==
    /\ portfolio' = record_equity(portfolio, date, current_prices)
    /\ lastCall' = CallRecord("record_equity", "", 0, 0, date, current_prices,
                              None, Zero)
    /\ nCalls' = nCalls + 1

\* --- a client driving a Portfolio directly ---
ClientGetPosition ==
    /\ pc = "standalone" /\ nCalls < MaxCalls
    /\ \E symbol \in Symbols : GetPosition(symbol)
    /\ UNCHANGED engineVars

ClientBuy ==
    /\ pc = "standalone" /\ nCalls < MaxCalls
    /\ \E symbol \in Symbols, quantity \in Quantities, price \in Prices,
          date \in CallDates : Buy(symbol, quantity, price, date)
    /\ UNCHANGED engineVars

ClientSell ==
    /\ pc = "standalone" /\ nCalls < MaxCalls
    /\ \E symbol \in Symbols, quantity \in Quantities, price \in Prices,
          date \in CallDates : Sell(symbol, quantity, price, date)
    /\ UNCHANGED engineVars

ClientTotalEquity ==
    /\ pc = "standalone" /\ nCalls < MaxCalls
    /\ \E current_prices \in PriceMaps : TotalEquity(current_prices)
    /\ UNCHANGED engineVars

ClientRecordEquity ==
    /\ pc = "standalone" /\ nCalls < MaxCalls
    /\ \E date \in CallDates, current_prices \in PriceMaps :
          RecordEquity(date, current_prices)
    /\ UNCHANGED engineVars

InitPortfolio ==
    /\ engine \in Params
    /\ portfolio = Portfolio(engine.initial_capital, engine.commission_rate)
    /\ lastCall = NoCall
    /\ nCalls = 0
    /\ made = 1
    /\ pc = "standalone"
    /\ data = <<>>
    /\ prepared_data = <<>>
    /\ trading_dates = <<>>
    /\ dateIdx = 0
    /\ callbacks = <<>>
    /\ error = ""
    /\ strategy = NoStrategy
    /\ CUSTOM_INDICATORS = {}
    /\ runs = <<>>
    /\ metrics = NoMetrics

NextPortfolio ==
    \/ ClientGetPosition
    \/ ClientBuy
    \/ ClientSell
    \/ ClientTotalEquity
    \/ ClientRecordEquity

SpecPortfolio == InitPortfolio /\ [][NextPortfolio]_vars

----------------------------------------------------------------------------
(* engine.py: BacktestEngine.  `data` is the dict passed to run, modelled  *)
(* as a sequence of [symbol, df, columns] entries in dict order; df is a   *)
(* function from the frame's index (a set of days) to the close of that    *)
(* row, columns the set of the frame's column names.                       *)

OHLCV == {"open", "high", "low", "close", "volume"}

\* indicators.py: the names of BUILTIN_INDICATORS
BUILTIN_INDICATORS ==
    {"sma", "ema", "rsi", "macd", "bollinger_bands", "atr",
     "stochastic_oscillator", "vwap"}

\* get_indicator_registry: name -> kind; a built-in hides a custom indicator
\* of the same name
get_indicator_registry ==
    [name \in BUILTIN_INDICATORS \cup CUSTOM_INDICATORS |->
        IF name \in BUILTIN_INDICATORS THEN "function" ELSE "class"]

RECURSIVE param_suffix(_, _)
\* "_".join(str(v) for v in params.values())
param_suffix(params, i) ==
    IF i > Len(params) THEN ""
    ELSE IF i = Len(params) THEN ToString(params[i])
    ELSE ToString(params[i]) \o "_" \o param_suffix(params, i + 1)

\* the column a config adds (single-series indicators): instance.name for a
\* custom class, name_suffix for a built-in function
col_name(config, registry) ==
    IF registry[config.name] = "class" THEN config.name
    ELSE IF param_suffix(config.params, 1) # ""
         THEN config.name \o "_" \o param_suffix(config.params, 1)
         ELSE config.name

\* Faulty variant of the working copy: the indicators are computed on the
\* caller's frame itself.
df_copy_Alias(frame) == [alias |-> TRUE, frame |-> frame]

\* result = df.copy(): a frame of its own, equal to the argument
df_copy(frame) == [alias |-> FALSE, frame |-> frame]

RECURSIVE ConfigLoop(_, _, _, _)
\* the loop of compute_indicators over the configs: the columns of `result`
\* when the loop ends, and the message of the ValueError raised, if any
ConfigLoop(columns, indicator_configs, i, registry) ==
    IF i > Len(indicator_configs) THEN [raised |-> "", columns |-> columns]
    ELSE LET config == indicator_configs[i]
         IN  IF config.name \notin DOMAIN registry
             THEN [raised |-> "Unknown indicator: '" \o config.name \o "'",
                   columns |-> columns]
             ELSE ConfigLoop(columns \cup {col_name(config, registry)},
                             indicator_configs, i + 1, registry)

\* compute_indicators(df, indicator_configs): the frame returned (when
\* nothing is raised), the message of the ValueError raised ("" if none),
\* and the caller's frame df as the call leaves it
compute_indicators(df, indicator_configs) ==
    LET result == df_copy(df)
        loop == ConfigLoop(result.frame.columns, indicator_configs, 1,
                           get_indicator_registry)
        computed == [result.frame EXCEPT !.columns = loop.columns]
    IN  [raised |-> loop.raised,
         result |-> computed,
         df |-> IF result.alias THEN computed ELSE df]

RECURSIVE PrepareLoop(_, _, _, _)
\* the loop of _prepare_data: empty frames are skipped; the others are
\* copied, through compute_indicators when there are configs.  acc holds
\* the local `prepared`, the caller's frames as the calls made so far leave
\* them, and the message of the ValueError that ended the loop, if any.
PrepareLoop(d, i, indicator_configs, acc) ==
    IF i > Len(d) \/ acc.raised # "" THEN acc
    ELSE IF DOMAIN d[i].df = {}
         THEN PrepareLoop(d, i + 1, indicator_configs, acc)
         ELSE IF Len(indicator_configs) > 0
              THEN LET r == compute_indicators(d[i], indicator_configs)
                   IN  PrepareLoop(d, i + 1, indicator_configs,
                          [raised |-> r.raised,
                           prepared |-> IF r.raised = ""
                                        THEN Append(acc.prepared, r.result)
                                        ELSE acc.prepared,
                           data |-> [acc.data EXCEPT ![i] = r.df]])
              ELSE PrepareLoop(d, i + 1, indicator_configs,
                          [acc EXCEPT !.prepared = Append(@, df_copy(d[i]).frame)])

\* Faulty variant of _prepare_data: without indicator configs every frame is
\* copied, the empty ones too.
_prepare_data_KeepEmpty(d, indicator_configs) ==
    IF Len(indicator_configs) > 0
    THEN PrepareLoop(d, 1, indicator_configs,
                     [raised |-> "", prepared |-> <<>>, data |-> d])
    ELSE [raised |-> "",
          prepared |-> [i \in 1..Len(d) |-> df_copy(d[i]).frame],
          data |-> d]

_prepare_data(d, indicator_configs) ==
    PrepareLoop(d, 1, indicator_configs,
                [raised |-> "", prepared |-> <<>>, data |-> d])

RECURSIVE IntersectLoop(_, _, _)
IntersectLoop(date_sets, i, common_dates) ==
    IF i > Len(date_sets) THEN common_dates
    ELSE IntersectLoop(date_sets, i + 1, common_dates \cap date_sets[i])

RECURSIVE sorted_Descending(_)
\* Faulty variant of sorted: the latest date comes first.
sorted_Descending(S) ==
    IF S = {} THEN <<>>
    ELSE LET m == CHOOSE x \in S : \A y \in S : x >= y
         IN  <<m>> \o sorted_Descending(S \ {m})

RECURSIVE sorted(_)
sorted(S) ==
    IF S = {} THEN <<>>
    ELSE LET m == CHOOSE x \in S : \A y \in S : x <= y
         IN  <<m>> \o sorted(S \ {m})

\* Faulty variant of the calendar: the union of the date sets is taken.
_get_trading_dates_Union(d) ==
    IF Len(d) = 0 THEN <<>>
    ELSE sorted(UNION {DOMAIN d[i].df : i \in 1..Len(d)})

_get_trading_dates(d) ==
    IF Len(d) = 0 THEN <<>>
    ELSE LET date_sets == [i \in 1..Len(d) |-> DOMAIN d[i].df]
         IN  sorted(IntersectLoop(date_sets, 2, date_sets[1]))

RECURSIVE BarLoop(_, _, _)
\* _get_bar_data: the [symbol, close] rows of the frames that hold `date`
BarLoop(d, i, date) ==
    IF i > Len(d) THEN <<>>
    ELSE IF date \in DOMAIN d[i].df
         THEN <<[symbol |-> d[i].symbol, close |-> d[i].df[date]]>>
              \o BarLoop(d, i + 1, date)
         ELSE BarLoop(d, i + 1, date)

\* Faulty variant of _get_bar_data: the loop stops after the first frame
\* that holds `date`.
_get_bar_data_FirstOnly(d, date) ==
    LET rows == BarLoop(d, 1, date)
    IN  IF Len(rows) = 0 THEN rows ELSE <<rows[1]>>

_get_bar_data(d, date) == BarLoop(d, 1, date)

\* _get_current_prices: symbol -> close for the frames that hold `date`
_get_current_prices(d, date) ==
    LET rows == BarLoop(d, 1, date)
    IN  [s \in {rows[i].symbol : i \in 1..Len(rows)} |->
            (CHOOSE r \in {rows[i] : i \in 1..Len(rows)} : r.symbol = s).close]

SymbolList(d) == [i \in 1..Len(d) |-> d[i].symbol]

Callback(name, date, symbols) ==
    [name |-> name, date |-> date, symbols |-> symbols]

\* Faulty variant of run: the Portfolio is constructed before the calendar is checked.
Run_PortfolioFirst ==
    /\ pc = "created"
    /\ runs' = Append(runs, [entered |-> strategy, result |-> NoPortfolio])
    /\ IF Len(data) = 0
       THEN /\ error' = "No data provided for backtest"
            /\ pc' = "raised"
            /\ UNCHANGED <<portfolio, made, data, prepared_data,
                           trading_dates, callbacks>>
       ELSE LET r == _prepare_data(data, strategy.indicators)
                dates == _get_trading_dates(r.prepared)
            IN  /\ data' = r.data
                /\ IF r.raised # ""
                   THEN /\ error' = r.raised
                        /\ pc' = "raised"
                        /\ UNCHANGED <<portfolio, made, prepared_data,
                                       trading_dates, callbacks>>
                   ELSE
                     /\ prepared_data' = r.prepared
                     /\ trading_dates' = dates
                     /\ portfolio' = Portfolio(engine.initial_capital,
                                               engine.commission_rate)
                     /\ made' = made + 1
                     /\ IF Len(dates) = 0
                        THEN /\ error' = "No overlapping trading dates found"
                             /\ pc' = "raised"
                             /\ UNCHANGED callbacks
                        ELSE /\ callbacks' = Append(callbacks,
                                    Callback("on_start", NoDate,
                                             SymbolList(r.prepared)))
                             /\ pc' = "on_start"
                             /\ UNCHANGED error
    /\ UNCHANGED <<lastCall, nCalls, engine, dateIdx>>
    /\ UNCHANGED <<strategy, CUSTOM_INDICATORS, metrics>>

\* run, from its entry to the call of strategy.on_start (engine.py:54-69)
Run ==
    /\ pc = "created"
    /\ runs' = Append(runs, [entered |-> strategy, result |-> NoPortfolio])
    /\ IF Len(data) = 0
       THEN /\ error' = "No data provided for backtest"
            /\ pc' = "raised"
            /\ UNCHANGED <<portfolio, made, data, prepared_data,
                           trading_dates, callbacks>>
       ELSE LET r == _prepare_data(data, strategy.indicators)
                dates == _get_trading_dates(r.prepared)
            IN  /\ data' = r.data
                /\ IF r.raised # ""
                   THEN /\ error' = r.raised
                        /\ pc' = "raised"
                        /\ UNCHANGED <<portfolio, made, prepared_data,
                                       trading_dates, callbacks>>
                   ELSE
                     /\ prepared_data' = r.prepared
                     /\ trading_dates' = dates
                     /\ IF Len(dates) = 0
                        THEN /\ error' = "No overlapping trading dates found"
                             /\ pc' = "raised"
                             /\ UNCHANGED <<portfolio, made, callbacks>>
                        ELSE /\ portfolio' = Portfolio(engine.initial_capital,
                                                       engine.commission_rate)
                             /\ made' = made + 1
                             /\ callbacks' = Append(callbacks,
                                    Callback("on_start", NoDate,
                                             SymbolList(r.prepared)))
                             /\ pc' = "on_start"
                             /\ UNCHANGED error
    /\ UNCHANGED <<lastCall, nCalls, engine, dateIdx>>
    /\ UNCHANGED <<strategy, CUSTOM_INDICATORS, metrics>>

\* on_start returns; the for loop starts (engine.py:76)
OnStartReturn ==
    /\ pc = "on_start"
    /\ pc' = "loop"
    /\ dateIdx' = 1
    /\ UNCHANGED <<portfolio, lastCall, nCalls, made, engine, data,
                   prepared_data, trading_dates, callbacks, error>>
    /\ UNCHANGED sessionVars

\* Faulty variant of the loop's record_equity step: the positions are valued
\* at the closes of the date before the current one.
LoopRecordEquity_StalePrices ==
    LET date == trading_dates[dateIdx]
        stale == trading_dates[IF dateIdx > 1 THEN dateIdx - 1 ELSE 1]
        current_prices == _get_current_prices(prepared_data, stale)
    IN  record_equity(portfolio, strftime(date), current_prices)

\* the loop's record_equity step for the current date (engine.py:83-84)
LoopRecordEquity ==
    LET date == trading_dates[dateIdx]
        current_prices == _get_current_prices(prepared_data, date)
    IN  record_equity(portfolio, strftime(date), current_prices)

\* one pass through the loop head: the next date's on_bar is called, or the
\* loop is over and on_end is called (engine.py:76-81, 86)
LoopHead ==
    /\ pc = "loop"
    /\ IF dateIdx > Len(trading_dates)
       THEN /\ callbacks' = Append(callbacks, Callback("on_end", NoDate, <<>>))
            /\ pc' = "on_end"
            /\ UNCHANGED <<portfolio, dateIdx>>
       ELSE LET date == trading_dates[dateIdx]
                bar_data == _get_bar_data(prepared_data, date)
            IN  IF Len(bar_data) > 0
                THEN /\ callbacks' = Append(callbacks,
                            Callback("on_bar", strftime(date),
                                     SymbolList(bar_data)))
                     /\ pc' = "on_bar"
                     /\ UNCHANGED <<portfolio, dateIdx>>
                ELSE /\ portfolio' = LoopRecordEquity
                     /\ dateIdx' = dateIdx + 1
                     /\ UNCHANGED <<pc, callbacks>>
    /\ UNCHANGED <<lastCall, nCalls, made, engine, data, prepared_data,
                   trading_dates, error>>
    /\ UNCHANGED sessionVars

\* on_bar returns; the date's prices are gathered and equity is recorded
OnBarReturn ==
    /\ pc = "on_bar"
    /\ portfolio' = LoopRecordEquity
    /\ dateIdx' = dateIdx + 1
    /\ pc' = "loop"
    /\ UNCHANGED <<lastCall, nCalls, made, engine, data, prepared_data,
                   trading_dates, callbacks, error>>
    /\ UNCHANGED sessionVars

\* Faulty variant of the return from on_end: a snapshot of the last date is
\* recorded again before the portfolio is returned.
OnEndReturn_Snapshot ==
    /\ pc = "on_end"
    /\ pc' = "returned"
    /\ LET date == trading_dates[Len(trading_dates)]
           current_prices == _get_current_prices(prepared_data, date)
       IN  portfolio' = record_equity(portfolio, strftime(date),
                                      current_prices)
    /\ runs' = [runs EXCEPT ![Len(runs)].result = portfolio']
    /\ UNCHANGED <<lastCall, nCalls, made, engine, data,
                   prepared_data, trading_dates, dateIdx, callbacks, error>>
    /\ UNCHANGED <<strategy, CUSTOM_INDICATORS, metrics>>

\* on_end returns; run returns the portfolio (engine.py:86-94)
OnEndReturn ==
    /\ pc = "on_end"
    /\ pc' = "returned"
    /\ runs' = [runs EXCEPT ![Len(runs)].result = portfolio]
    /\ UNCHANGED <<portfolio, lastCall, nCalls, made, engine, data,
                   prepared_data, trading_dates, dateIdx, callbacks, error>>
    /\ UNCHANGED <<strategy, CUSTOM_INDICATORS, metrics>>

\* the order sizes a strategy uses during a run
OrderSizes == {2}

\* --- the strategy, inside a callback, using the Portfolio it was handed ---
StrategyGetPosition ==
    /\ InCallback /\ nCalls < MaxOrders
    /\ \E symbol \in Symbols : GetPosition(symbol)
    /\ UNCHANGED engineVars

StrategyBuy ==
    /\ InCallback /\ nCalls < MaxOrders
    /\ \E symbol \in Symbols, quantity \in OrderSizes, price \in Prices,
          date \in CallDates : Buy(symbol, quantity, price, date)
    /\ UNCHANGED engineVars

StrategySell ==
    /\ InCallback /\ nCalls < MaxOrders
    /\ \E symbol \in Symbols, quantity \in OrderSizes, price \in Prices,
          date \in CallDates : Sell(symbol, quantity, price, date)
    /\ UNCHANGED engineVars

StrategyTotalEquity ==
    /\ InCallback /\ nCalls < MaxOrders
    /\ \E current_prices \in PriceMaps : TotalEquity(current_prices)
    /\ UNCHANGED engineVars

\* --- inputs of a run ---
\* close of `symbol` on day d
Close(symbol, d) == 1 + ((d + (IF symbol = "A" THEN 0 ELSE 1)) % 2)

SymbolOrders ==
    {o \in UNION {[1..n -> Symbols] : n \in 0..Cardinality(Symbols)} :
        \A i, j \in DOMAIN o : i # j => o[i] # o[j]}

DataInputs ==
    {[i \in DOMAIN o |->
         [symbol |-> o[i], df |-> [d \in ix[o[i]] |-> Close(o[i], d)],
          columns |-> OHLCV]] :
     o \in SymbolOrders, ix \in [Symbols -> SUBSET Dates]}

\* the (initial_capital, commission_rate) a BacktestEngine is built with
EngineParams == {[initial_capital |-> F(4), commission_rate |-> Norm(1, 10)]}

Init ==
    /\ engine \in EngineParams
    /\ data \in DataInputs
    /\ portfolio = NoPortfolio
    /\ lastCall = NoCall
    /\ nCalls = 0
    /\ made = 0
    /\ pc = "created"
    /\ prepared_data = <<>>
    /\ trading_dates = <<>>
    /\ dateIdx = 0
    /\ callbacks = <<>>
    /\ error = ""
    /\ strategy = UserStrategy
    /\ CUSTOM_INDICATORS = {}
    /\ runs = <<>>
    /\ metrics = NoMetrics

Next ==
    \/ Run
    \/ OnStartReturn
    \/ LoopHead
    \/ OnBarReturn
    \/ OnEndReturn
    \/ StrategyGetPosition
    \/ StrategyBuy
    \/ StrategySell
    \/ StrategyTotalEquity

Spec == Init /\ [][Next]_vars

----------------------------------------------------------------------------
(* A session: engines are built and run one after another on the same      *)
(* frames, with the strategies of tests/test_engine.py.  A callback of     *)
(* these strategies is one step: its body runs to its end.                 *)

MaxRuns == 2       \* calls of run per session

NaN == <<0, 0>>

RECURSIVE SumCloses(_, _)
SumCloses(df, days) ==
    IF days = {} THEN Zero
    ELSE LET d == CHOOSE x \in days : TRUE
         IN  RAdd(F(df[d]), SumCloses(df, days \ {d}))

\* sma (indicators.py:22-32) of the close column, read at the row of `date`:
\* the mean of the last `period` rows, NaN while there are fewer
sma(df, date, period) ==
    LET upto == {d \in DOMAIN df : d <= date}
        window == {d \in upto : Cardinality({e \in upto : e > d}) < period}
    IN  IF Cardinality(upto) < period THEN NaN
        ELSE RDiv(SumCloses(df, window), F(period))

\* bar.get("sma_5") for the bar of `symbol` on `date`; a missing column
\* reads as None, which pd.notna rejects like NaN
bar_get_sma_5(symbol, date) ==
    LET i == CHOOSE j \in DOMAIN prepared_data :
                 prepared_data[j].symbol = symbol
    IN  IF "sma_5" \in prepared_data[i].columns
        THEN sma(prepared_data[i].df, date, 5)
        ELSE NaN

\* the record of a Portfolio call made on pf
CallOn(pf, op, symbol, quantity, price, date, ret) ==
    [CallRecord(op, symbol, quantity, price, date, NoPrices, ret, Zero)
        EXCEPT !.before = pf]

\* acc after portfolio.get_position(symbol)
AccGetPosition(acc, symbol) ==
    [pf |-> get_position(acc.pf, symbol),
     last |-> CallOn(acc.pf, "get_position", symbol, 0, 0, NoDate, None),
     n |-> acc.n + 1]

\* acc after portfolio.buy(symbol, quantity, close, date)
AccBuy(acc, symbol, quantity, close, date) ==
    LET r == buy(acc.pf, symbol, F(quantity), F(close), date)
    IN  [pf |-> r.pf,
         last |-> CallOn(acc.pf, "buy", symbol, quantity, close, date, r.ret),
         n |-> acc.n + 1]

\* acc after portfolio.sell(symbol, position.quantity, close, date)
AccSell(acc, symbol, quantity, close, date) ==
    LET r == sell(acc.pf, symbol, quantity, F(close), date)
    IN  [pf |-> r.pf,
         last |-> CallOn(acc.pf, "sell", symbol, quantity[1], close, date,
                         r.ret),
         n |-> acc.n + 1]

RECURSIVE on_bar_loop(_, _, _, _, _, _)
\* the `for symbol, bar in data.items()` loop of on_bar of the three test
\* strategies (tests/test_engine.py:17-21, 37-42, 55-61).  acc holds the
\* portfolio, the last Portfolio call made and the number of calls.
on_bar_loop(st, day, date, bar_data, i, acc) ==
    IF i > Len(bar_data) THEN acc
    ELSE
      LET symbol == bar_data[i].symbol
          close == bar_data[i].close
          got == AccGetPosition(acc, symbol)
          position == PositionOf(got.pf, symbol)
          after ==
            IF st.cls = "AlwaysBuyStrategy"
            THEN IF ~is_open(position)
                 THEN AccBuy(got, symbol, 10, close, date)
                 ELSE got
            ELSE IF st.cls = "BuyAndSellStrategy"
            THEN IF st._bar_count % 10 = 1 /\ ~is_open(position)
                 THEN AccBuy(got, symbol, 10, close, date)
                 ELSE IF st._bar_count % 10 = 5 /\ is_open(position)
                      THEN AccSell(got, symbol, position.quantity, close, date)
                      ELSE got
            ELSE LET sma_val == bar_get_sma_5(symbol, day)
                 IN  IF sma_val # NaN /\ RGt(F(close), sma_val)
                     THEN IF ~is_open(position)
                          THEN AccBuy(got, symbol, 5, close, date)
                          ELSE got
                     ELSE acc
      IN  on_bar_loop(st, day, date, bar_data, i + 1, after)

\* on_bar(date, data, portfolio) of the strategy instance st
on_bar(st, day, bar_data, pf) ==
    LET st1 == IF st.cls = "BuyAndSellStrategy"
               THEN [st EXCEPT !._bar_count = @ + 1]
               ELSE st
    IN  [strategy |-> st1,
         acc |-> on_bar_loop(st1, day, strftime(day), bar_data, 1,
                             [pf |-> pf, last |-> lastCall, n |-> 0])]

\* on_bar runs and returns; the date's prices are gathered and equity is
\* recorded (engine.py:79-84)
TestStrategyOnBar ==
    /\ pc = "on_bar"
    /\ LET date == trading_dates[dateIdx]
           bar_data == _get_bar_data(prepared_data, date)
           current_prices == _get_current_prices(prepared_data, date)
           r == on_bar(strategy, date, bar_data, portfolio)
       IN  /\ strategy' = r.strategy
           /\ portfolio' = record_equity(r.acc.pf, strftime(date),
                                         current_prices)
           /\ lastCall' = r.acc.last
           /\ nCalls' = nCalls + r.acc.n
    /\ dateIdx' = dateIdx + 1
    /\ pc' = "loop"
    /\ UNCHANGED <<made, engine, data, prepared_data, trading_dates,
                   callbacks, error, CUSTOM_INDICATORS, runs, metrics>>

\* the caller calls run again on the same engine, with the same frames
RunAgain ==
    /\ pc = "returned"
    /\ Len(runs) < MaxRuns
    /\ pc' = "created"
    /\ prepared_data' = <<>>
    /\ trading_dates' = <<>>
    /\ dateIdx' = 0
    /\ callbacks' = <<>>
    /\ UNCHANGED <<portfolio, lastCall, nCalls, made, engine, data, error>>
    /\ UNCHANGED sessionVars

\* the caller builds the strategy and the engine anew, as the service does
\* for every request (backtest_service.py:60-90), and runs the same frames
NewEngine ==
    /\ pc = "returned"
    /\ Len(runs) < MaxRuns
    /\ strategy' = StrategyInstance(strategy.cls, strategy.indicators)
    /\ pc' = "created"
    /\ prepared_data' = <<>>
    /\ trading_dates' = <<>>
    /\ dateIdx' = 0
    /\ callbacks' = <<>>
    /\ UNCHANGED <<portfolio, lastCall, nCalls, made, engine, data, error>>
    /\ UNCHANGED <<CUSTOM_INDICATORS, runs, metrics>>

SessionParams == {[initial_capital |-> F(25), commission_rate |-> Norm(1, 10)]}

\* indicator configs: a built-in with its parameter, and a custom class
SMA5 == [name |-> "sma", params |-> <<5>>]
MyIndicator == [name |-> "MyIndicator", params |-> <<>>]

IndicatorLists == {<<SMA5>>, <<SMA5, MyIndicator>>, <<MyIndicator>>}

\* the strategy instances, with the custom registry they run under
SessionSetups ==
    {[strategy |-> StrategyInstance(cls, <<>>), custom |-> {}] :
        cls \in {"AlwaysBuyStrategy", "BuyAndSellStrategy"}}
    \cup
    {[strategy |-> StrategyInstance("WithIndicatorStrategy", l), custom |-> c] :
        l \in IndicatorLists, c \in {{}, {"MyIndicator"}}}

InitSession ==
    /\ engine \in SessionParams
    /\ data \in DataInputs
    /\ \E setup \in SessionSetups :
          /\ strategy = setup.strategy
          /\ CUSTOM_INDICATORS = setup.custom
    /\ portfolio = NoPortfolio
    /\ lastCall = NoCall
    /\ nCalls = 0
    /\ made = 0
    /\ pc = "created"
    /\ prepared_data = <<>>
    /\ trading_dates = <<>>
    /\ dateIdx = 0
    /\ callbacks = <<>>
    /\ error = ""
    /\ runs = <<>>
    /\ metrics = NoMetrics

NextSession ==
    \/ Run
    \/ OnStartReturn
    \/ LoopHead
    \/ TestStrategyOnBar
    \/ OnEndReturn
    \/ RunAgain
    \/ NewEngine

SpecSession == InitSession /\ [][NextSession]_vars

----------------------------------------------------------------------------
(* Properties of the Portfolio (checked under SpecPortfolio)               *)

\* what get_position(symbol) reports for pf: the entry, or a fresh flat one
Held(pf, symbol) ==
    IF HasPosition(pf, symbol) THEN PositionOf(pf, symbol)
    ELSE Position(symbol)

Accepted(call) == call.ret # None
OrderCost(call) == RMul(F(call.quantity), F(call.price))
OrderCommission(call) == RMul(OrderCost(call), call.before.commission_rate)

\* C1: cash is never negative, whatever buys and sells were called.
C1_CashNeverNegative == RGe(portfolio.cash, Zero)

\* a buy was just rejected after an accepted buy and an accepted sell
C1_Witness ==
    /\ lastCall.op = "buy" /\ ~Accepted(lastCall)
    /\ \E i, j \in 1..Len(portfolio.trades) :
          /\ i < j
          /\ portfolio.trades[i].side = BUY
          /\ portfolio.trades[j].side = SELL

\* C2: every position with quantity 0 has cost_basis 0 and avg_price 0.
C2_FlatPositionIsZero ==
    \A i \in 1..Len(portfolio.positions) :
        portfolio.positions[i].quantity = Zero =>
            /\ portfolio.positions[i].cost_basis = Zero
            /\ portfolio.positions[i].avg_price = Zero

\* a sell just left a non-zero residual below the threshold, which was
\* snapped: the position is flat, and another entry was created lazily
C2_Witness ==
    /\ lastCall.op = "sell" /\ Accepted(lastCall)
    /\ RGt(Held(lastCall.before, lastCall.symbol).quantity,
           F(lastCall.quantity))
    /\ Held(portfolio, lastCall.symbol).quantity = Zero
    /\ Len(portfolio.positions) = 2

\* C3: a buy whose cost plus commission exceeds cash returns None and leaves
\* the whole Portfolio (cash, positions and their symbols, trades,
\* equity_history) as it was.
C3_RejectedBuyChangesNothing ==
    (/\ lastCall.op = "buy"
     /\ RGt(RAdd(OrderCost(lastCall), OrderCommission(lastCall)),
            lastCall.before.cash))
    => (/\ lastCall.ret = None
        /\ portfolio = lastCall.before)

\* a buy of a symbol without a position entry was just rejected although
\* its bare cost was affordable, with trades already in the log
C3_Witness ==
    /\ lastCall.op = "buy" /\ ~Accepted(lastCall)
    /\ RLe(OrderCost(lastCall), lastCall.before.cash)
    /\ ~HasPosition(lastCall.before, lastCall.symbol)
    /\ Len(lastCall.before.trades) > 0

\* C4: a sell of more than is held (nothing, for a symbol never bought)
\* returns None; cash, the trade log and every existing position are
\* unchanged, and an entry that did not exist before is flat.
C4_RejectedSellChangesNothingHeld ==
    (/\ lastCall.op = "sell"
     /\ RGt(F(lastCall.quantity),
            Held(lastCall.before, lastCall.symbol).quantity))
    => (/\ lastCall.ret = None
        /\ portfolio.cash = lastCall.before.cash
        /\ portfolio.trades = lastCall.before.trades
        /\ \A s \in Symbols :
              /\ Held(portfolio, s) = Held(lastCall.before, s)
              /\ HasPosition(lastCall.before, s) => HasPosition(portfolio, s))

\* a sell of a never-bought symbol was just rejected while another symbol
\* is held
C4_Witness ==
    /\ lastCall.op = "sell" /\ ~Accepted(lastCall)
    /\ ~HasPosition(lastCall.before, lastCall.symbol)
    /\ \E s \in Symbols : is_open(Held(portfolio, s))

\* C5: a buy is accepted exactly when q*p*(1+rate) <= cash; an accepted buy
\* takes q*p + q*p*rate from cash, adds q to the quantity and q*p to the
\* cost_basis, sets avg_price = cost_basis/quantity, changes no other
\* position and appends one BUY trade carrying commission q*p*rate.
C5_AcceptedBuy ==
    lastCall.op = "buy" =>
      LET b == lastCall.before
          s == lastCall.symbol
          q == F(lastCall.quantity)
          cost == OrderCost(lastCall)
          rate == b.commission_rate
          now == Held(portfolio, s)
      IN  /\ Accepted(lastCall) <=>
                RLe(RMul(cost, RAdd(F(1), rate)), b.cash)
          /\ Accepted(lastCall) =>
              /\ portfolio.cash = RSub(RSub(b.cash, cost), RMul(cost, rate))
              /\ now.quantity = RAdd(Held(b, s).quantity, q)
              /\ now.cost_basis = RAdd(Held(b, s).cost_basis, cost)
              /\ now.avg_price = RDiv(now.cost_basis, now.quantity)
              /\ \A o \in Symbols \ {s} :
                    /\ HasPosition(portfolio, o) <=> HasPosition(b, o)
                    /\ Held(portfolio, o) = Held(b, o)
              /\ Len(portfolio.trades) = Len(b.trades) + 1
              /\ SubSeq(portfolio.trades, 1, Len(b.trades)) = b.trades
              /\ portfolio.trades[Len(portfolio.trades)] =
                    Trade(s, BUY, q, F(lastCall.price), RMul(cost, rate),
                          lastCall.date)

\* a buy just spent all remaining cash, adding to a position bought at
\* another price
C5_Witness ==
    /\ lastCall.op = "buy" /\ Accepted(lastCall)
    /\ portfolio.cash = Zero
    /\ is_open(Held(lastCall.before, lastCall.symbol))
    /\ Held(portfolio, lastCall.symbol).avg_price # F(lastCall.price)

\* C6: an accepted sell of q out of Q adds q*p - q*p*rate to cash; when the
\* residual Q - q is at least 1e-9 the quantity becomes Q - q, the
\* cost_basis becomes cost_basis*(1 - q/Q) and avg_price is unchanged; when
\* it is below 1e-9 all three become 0; one SELL trade is appended.
C6_AcceptedSell ==
    (lastCall.op = "sell" /\ Accepted(lastCall)) =>
      LET b == lastCall.before
          s == lastCall.symbol
          q == F(lastCall.quantity)
          was == Held(b, s)
          now == Held(portfolio, s)
          revenue == OrderCost(lastCall)
          rate == b.commission_rate
          residual == RSub(was.quantity, q)
      IN  /\ RGe(was.quantity, q)
          /\ portfolio.cash =
                RAdd(b.cash, RSub(revenue, RMul(revenue, rate)))
          /\ IF RGe(residual, F(EPS))
             THEN /\ now.quantity = residual
                  /\ now.cost_basis =
                        RMul(was.cost_basis,
                             RSub(F(1), RDiv(q, was.quantity)))
                  /\ now.avg_price = was.avg_price
             ELSE /\ now.quantity = Zero
                  /\ now.cost_basis = Zero
                  /\ now.avg_price = Zero
          /\ Len(portfolio.trades) = Len(b.trades) + 1
          /\ portfolio.trades[Len(portfolio.trades)] =
                Trade(s, SELL, q, F(lastCall.price), RMul(revenue, rate),
                      lastCall.date)

\* a partial sell just left a residual at the threshold, at a price other
\* than the position's average price
C6_Witness ==
    /\ lastCall.op = "sell" /\ Accepted(lastCall)
    /\ Held(portfolio, lastCall.symbol).quantity = F(EPS)
    /\ Held(portfolio, lastCall.symbol).avg_price # F(lastCall.price)

\* C7: every step leaves the trade log unchanged or appends exactly one
\* record at its end, keeping the recorded prefix; the log grows exactly on
\* an accepted buy or sell (by the returned trade), and not on a rejected
\* order, get_position, total_equity or record_equity.
C7_TradeLogAppendOnly ==
    [][LET old == portfolio.trades
           new == portfolio'.trades
           grows == /\ lastCall'.op \in {"buy", "sell"}
                    /\ Accepted(lastCall')
       IN  /\ grows => new = Append(old, lastCall'.ret[1])
           /\ ~grows => new = old]_vars

\* record_equity was just called with two trades in the log
C7_Witness ==
    /\ lastCall.op = "record_equity"
    /\ Len(portfolio.trades) = 2
    /\ Len(portfolio.equity_history) = 1

RECURSIVE SumOver(_, _, _)
\* the sum of quantity * price over the symbols in S
SumOver(S, pf, prices) ==
    IF S = {} THEN Zero
    ELSE LET s == CHOOSE x \in S : TRUE
         IN  RAdd(RMul(Held(pf, s).quantity, F(prices[s])),
                  SumOver(S \ {s}, pf, prices))

\* C8: total_equity(current_prices) is cash plus the sum of quantity*price
\* over the positions with quantity > 0 whose symbol is a key of
\* current_prices, and the call changes nothing.
C8_TotalEquity ==
    lastCall.op = "total_equity" =>
      LET priced == {s \in DOMAIN lastCall.prices :
                        /\ HasPosition(portfolio, s)
                        /\ RGt(Held(portfolio, s).quantity, Zero)}
      IN  /\ lastCall.value =
                RAdd(portfolio.cash,
                     SumOver(priced, portfolio, lastCall.prices))
          /\ portfolio = lastCall.before

\* total_equity was just called with two open positions, one of them
\* missing from the price map and the other priced away from its cost
C8_Witness ==
    /\ lastCall.op = "total_equity"
    /\ \E s, o \in Symbols :
          /\ s \in DOMAIN lastCall.prices
          /\ o \notin DOMAIN lastCall.prices
          /\ is_open(Held(portfolio, s))
          /\ is_open(Held(portfolio, o))
          /\ Held(portfolio, s).avg_price # F(lastCall.prices[s])

----------------------------------------------------------------------------
(* Properties of BacktestEngine.run (checked under Spec)                   *)

\* the entries of the input whose frame has at least one row
NonEmptyEntries == {i \in 1..Len(data) : DOMAIN data[i].df # {}}

\* the days on which every symbol of the input has a row
CommonDatesOfAll ==
    {d \in Dates : \A i \in 1..Len(data) : d \in DOMAIN data[i].df}

\* the days on which every symbol with a non-empty series has a row
CommonDatesOfNonEmpty ==
    {d \in Dates : \A i \in NonEmptyEntries : d \in DOMAIN data[i].df}

\* equity_history holds one snapshot per day of I, in ascending date order
SnapshotsAreExactly(I) ==
    LET h == portfolio.equity_history
    IN  /\ Len(h) = Cardinality(I)
        /\ {h[i].date : i \in 1..Len(h)} = {strftime(d) : d \in I}
        /\ \A i, j \in 1..Len(h) : i < j => StrLt(h[i].date, h[j].date)

\* C9 as stated: after run returns, the snapshots are exactly the days in
\* the intersection of the date sets of all symbols of the input.
C9_SnapshotsAreIntersectionOfAll ==
    pc = "returned" => SnapshotsAreExactly(CommonDatesOfAll)

\* C9 amended: after run returns, equity_history holds exactly one snapshot
\* per day of the intersection of the date sets of the symbols whose series
\* is non-empty, in strictly ascending date order.
C9_SnapshotsAreIntersectionOfNonEmpty ==
    pc = "returned" => SnapshotsAreExactly(CommonDatesOfNonEmpty)

\* run returned for two symbols whose date sets differ and share two days,
\* one of them missing from a symbol
C9_Witness ==
    /\ pc = "returned"
    /\ Len(prepared_data) = 2
    /\ DOMAIN data[1].df # DOMAIN data[2].df
    /\ Len(portfolio.equity_history) = 2
    /\ Cardinality(DOMAIN data[1].df \cup DOMAIN data[2].df) = 3

\* C10: when the symbol map is empty, or no day is common to the series,
\* run raises before a Portfolio is constructed: no callback is called, no
\* Portfolio method is called, and no trade or snapshot exists.
C10_AbortBeforePortfolio ==
    (/\ pc # "created"
     /\ \/ Len(data) = 0
        \/ NonEmptyEntries = {}
        \/ CommonDatesOfNonEmpty = {})
    => (/\ pc = "raised"
        /\ error = IF Len(data) = 0
                   THEN "No data provided for backtest"
                   ELSE "No overlapping trading dates found"
        /\ made = 0
        /\ portfolio = NoPortfolio
        /\ callbacks = <<>>
        /\ lastCall = NoCall)

\* run raised for two symbols with non-empty series and no common day
C10_Witness ==
    /\ pc = "raised"
    /\ Len(prepared_data) = 2
    /\ error = "No overlapping trading dates found"

----------------------------------------------------------------------------
(* Properties of a run: the order of the callbacks (checked under Spec)    *)

\* the number of on_bar calls made so far
BarCalls ==
    Cardinality({i \in DOMAIN callbacks : callbacks[i].name = "on_bar"})

\* C11: a run calls on_start once and first, after the data is prepared;
\* then for the 1st, 2nd, ... date of the calendar, in strictly ascending
\* order, on_bar once and then record_equity for that date; then on_end
\* once, after the last date's record_equity, and nothing after it.
C11_CallbackOrder ==
    LET n == Len(callbacks)
        history == portfolio.equity_history
    IN  /\ pc \in {"created", "raised"} => n = 0
        /\ pc \notin {"created", "raised"} =>
               /\ n >= 1
               /\ callbacks[1].name = "on_start"
               /\ prepared_data =
                      _prepare_data(data, strategy.indicators).prepared
        /\ \A i \in 2..n :
               /\ callbacks[i].name \in {"on_bar", "on_end"}
               /\ callbacks[i].name = "on_end" => i = n
               /\ callbacks[i].name = "on_bar" =>
                      /\ i - 1 <= Len(trading_dates)
                      /\ callbacks[i].date = strftime(trading_dates[i - 1])
                      /\ i > 2 => StrLt(callbacks[i - 1].date,
                                        callbacks[i].date)
        /\ Len(history) = IF pc = "on_bar" THEN BarCalls - 1 ELSE BarCalls
        /\ \A i \in 1..Len(history) : history[i].date = callbacks[i + 1].date
        /\ (pc \in {"on_end", "returned"}) <=>
               (n >= 1 /\ callbacks[n].name = "on_end")
        /\ pc \in {"on_end", "returned"} =>
               /\ BarCalls = Len(trading_dates)
               /\ Len(history) = Len(trading_dates)

\* a run over two dates or more has returned
C11_Witness ==
    /\ pc = "returned"
    /\ Len(trading_dates) >= 2
    /\ Len(portfolio.equity_history) = Len(trading_dates)

----------------------------------------------------------------------------
(* Properties of a run: what a snapshot records (checked under Spec)       *)

\* the closes of day d in the frames passed to run, symbol -> close
ClosesOn(d) ==
    LET held == {i \in DOMAIN data : d \in DOMAIN data[i].df}
    IN  [s \in {data[i].symbol : i \in held} |->
            data[CHOOSE i \in held : data[i].symbol = s].df[d]]

\* the snapshot of pf on day d: cash, and cash plus the open positions of pf
\* valued at the closes of d
SnapshotOf(pf, d) ==
    LET priced == {s \in DOMAIN ClosesOn(d) :
                      /\ HasPosition(pf, s)
                      /\ RGt(Held(pf, s).quantity, Zero)}
    IN  [date |-> strftime(d),
         equity |-> RAdd(pf.cash, SumOver(priced, pf, ClosesOn(d))),
         cash |-> pf.cash]

C12_Step ==
    LET history == portfolio.equity_history
        history2 == portfolio'.equity_history
    IN  /\ Len(history2) > Len(history) =>
               /\ pc = "on_bar" /\ pc' # "on_bar"
               /\ Len(history2) = Len(history) + 1
               /\ history2[Len(history2)] =
                      SnapshotOf(portfolio, trading_dates[BarCalls])
               /\ history2[Len(history2)].date = callbacks[Len(callbacks)].date
               /\ portfolio'.cash = portfolio.cash
               /\ portfolio'.positions = portfolio.positions
               /\ portfolio'.trades = portfolio.trades
        /\ (pc = "on_bar" /\ pc' # "on_bar") => Len(history2) = Len(history) + 1
        /\ (pc = "on_bar" /\ portfolio'.trades # portfolio.trades) =>
               /\ pc' = "on_bar"
               /\ Len(history) = BarCalls - 1
               /\ history2 = history

\* C12: on each date the snapshot is taken when on_bar returns, not
\* before: it records the cash left by every trade made in that on_bar and
\* that cash plus the positions those trades left, valued at the date's
\* closes; a trade made in on_bar(d) is in the portfolio before the snapshot
\* of d exists.
C12_SnapshotAfterOnBar == [][C12_Step]_vars

\* on_bar has just returned after a buy it made was filled, and the snapshot
\* of that date shows the reduced cash and the position at the date's close
C12_Witness ==
    /\ pc = "loop"
    /\ lastCall.op = "buy" /\ Accepted(lastCall)
    /\ Len(portfolio.equity_history) >= 2
    /\ LET last == portfolio.equity_history[Len(portfolio.equity_history)]
       IN  /\ last.date = lastCall.date
           /\ RLt(last.cash, portfolio.initial_capital)
           /\ RGt(last.equity, last.cash)

----------------------------------------------------------------------------
(* Properties of repeated runs (checked under SpecSession)                 *)

Completed(i) == runs[i].result # NoPortfolio

SameResult(i, j) ==
    /\ runs[i].result.trades = runs[j].result.trades
    /\ runs[i].result.equity_history = runs[j].result.equity_history

\* on_start of a run sees a Portfolio holding initial_capital and nothing else
StartsFresh ==
    pc = "on_start" =>
        /\ portfolio.cash = engine.initial_capital
        /\ portfolio.initial_capital = engine.initial_capital
        /\ portfolio.positions = <<>>
        /\ portfolio.trades = <<>>
        /\ portfolio.equity_history = <<>>

\* C13 as stated: any two completed runs over the same frames, strategy and
\* parameters return the same trades and the same equity_history, and every
\* run starts from a fresh Portfolio.
C13_RunsAgree ==
    /\ \A i, j \in DOMAIN runs :
          (Completed(i) /\ Completed(j)) => SameResult(i, j)
    /\ StartsFresh

\* C13 (amended): two completed runs over the same frames and parameters
\* that the strategy instance entered in the same state return the same
\* trades and the same equity_history, and every run starts from a fresh
\* Portfolio.
C13_RunsAgreeFromSameStrategyState ==
    /\ \A i, j \in DOMAIN runs :
          (Completed(i) /\ Completed(j) /\ runs[i].entered = runs[j].entered)
              => SameResult(i, j)
    /\ StartsFresh

\* a second run with a new BuyAndSellStrategy has returned, after a first
\* run that traded
C13_Witness ==
    /\ Len(runs) = 2
    /\ Completed(1) /\ Completed(2)
    /\ runs[1].entered = runs[2].entered
    /\ runs[1].entered.cls = "BuyAndSellStrategy"
    /\ Len(runs[1].result.trades) >= 1
    /\ Len(runs[2].result.equity_history) >= 2

----------------------------------------------------------------------------
(* Properties of a run with an unknown indicator (checked under            *)
(* SpecSession)                                                            *)

\* the positions of the configs whose name is in neither registry
UnknownConfigs ==
    {i \in DOMAIN strategy.indicators :
        /\ strategy.indicators[i].name \notin BUILTIN_INDICATORS
        /\ strategy.indicators[i].name \notin CUSTOM_INDICATORS}

FirstUnknown ==
    strategy.indicators[CHOOSE i \in UnknownConfigs :
                            \A j \in UnknownConfigs : i <= j].name

\* the run has aborted before it started, and left the caller's frames alone
AbortedBeforeStart ==
    /\ pc = "raised"
    /\ made = 0 /\ portfolio = NoPortfolio
    /\ callbacks = <<>>
    /\ \A i \in DOMAIN data : data[i].columns = OHLCV

UnknownIndicatorError ==
    error = "Unknown indicator: '" \o FirstUnknown \o "'"

\* C14 as stated: with an unknown indicator among the configs, run aborts
\* with the unknown-indicator error: no Portfolio, no callback, no column
\* added to the caller's frames.
C14_UnknownIndicatorAborts ==
    (UnknownConfigs # {} /\ pc # "created") =>
        (AbortedBeforeStart /\ UnknownIndicatorError)

\* C14 (amended): with an unknown indicator among the configs, run aborts
\* with no Portfolio, no callback and no column added to the caller's
\* frames; the error is the unknown-indicator error when some frame is
\* non-empty, and otherwise the no-data or the no-overlapping-dates error,
\* because the configs are only looked at for a non-empty frame.
C14_UnknownIndicatorAbortsOnNonEmptyData ==
    (UnknownConfigs # {} /\ pc # "created") =>
        /\ AbortedBeforeStart
        /\ IF \E i \in DOMAIN data : DOMAIN data[i].df # {}
           THEN UnknownIndicatorError
           ELSE IF Len(data) = 0
                THEN error = "No data provided for backtest"
                ELSE error = "No overlapping trading dates found"

\* run has aborted on two non-empty frames because the second config names
\* a custom indicator that is not registered
C14_Witness ==
    /\ pc = "raised"
    /\ strategy.indicators = <<SMA5, MyIndicator>>
    /\ CUSTOM_INDICATORS = {}
    /\ error = "Unknown indicator: 'MyIndicator'"
    /\ Len(data) = 2
    /\ \A i \in DOMAIN data : DOMAIN data[i].df # {}

----------------------------------------------------------------------------
(* performance.py: the metric functions, applied to the equity curve and   *)
(* the trade log of a finished Portfolio, as tests/test_performance.py     *)
(* applies them.                                                           *)

MaxCurve == 4      \* points of an equity curve
MaxTrades == 4     \* trades of a trade log

TRADING_DAYS_PER_YEAR == 252

\* equity_curve: the list of {date, equity} dicts of the portfolio
equity_curve(pf) ==
    [i \in 1..Len(pf.equity_history) |->
        [date |-> pf.equity_history[i].date,
         equity |-> pf.equity_history[i].equity]]

\* Faulty variant of the peak update: the first equity stays the peak.
running_peak_First(peak, equity) == peak

\* if equity > peak: peak = equity
running_peak(peak, equity) == IF RGt(equity, peak) THEN equity ELSE peak

RECURSIVE DrawdownLoop(_, _, _, _)
\* the for loop of _max_drawdown
DrawdownLoop(equities, i, peak, max_dd) ==
    IF i > Len(equities) THEN max_dd
    ELSE LET equity == equities[i]
             peak1 == running_peak(peak, equity)
             drawdown == IF RGt(peak1, Zero)
                         THEN RMul(RDiv(RSub(equity, peak1), peak1), F(100))
                         ELSE Zero
         IN  DrawdownLoop(equities, i + 1, peak1,
                          IF RLt(drawdown, max_dd) THEN drawdown ELSE max_dd)

_max_drawdown(curve) ==
    LET equities == [i \in 1..Len(curve) |-> curve[i].equity]
    IN  IF Len(equities) = 0 THEN Zero
        ELSE DrawdownLoop(equities, 1, equities[1], Zero)

\* a caller applies _max_drawdown to the portfolio's curve
CallMaxDrawdown ==
    /\ pc = "finished"
    /\ metrics' = [op |-> "_max_drawdown",
                   value |-> _max_drawdown(equity_curve(portfolio))]
    /\ UNCHANGED <<portfolio, lastCall, nCalls, made, engine, pc, data,
                   prepared_data, trading_dates, dateIdx, callbacks, error,
                   strategy, CUSTOM_INDICATORS, runs>>

Inf == <<1, 0>>    \* float("inf")

RAbs(x) == <<Abs(x[1]), x[2]>>

\* Faulty variant of the pairing: the newest open BUY is taken.
pop_index_Last(queue) == Len(queue)

\* open_trades[symbol].pop(0): the index of the BUY that is taken
pop_index(queue) == 1

\* Faulty variant of the return: the commissions are left out.
pnl_pct_NoCommission(buy_trade, trade) ==
    LET buy_cost == RMul(buy_trade.quantity, buy_trade.price)
        sell_revenue == RMul(trade.quantity, trade.price)
    IN  RMul(RDiv(RSub(sell_revenue, buy_cost), buy_cost), F(100))

\* the return of a round trip (performance.py:174-176)
pnl_pct(buy_trade, trade) ==
    LET buy_cost == RAdd(RMul(buy_trade.quantity, buy_trade.price),
                         buy_trade.commission)
        sell_revenue == RSub(RMul(trade.quantity, trade.price),
                             trade.commission)
    IN  RMul(RDiv(RSub(sell_revenue, buy_cost), buy_cost), F(100))

Remove(queue, k) ==
    [i \in 1..(Len(queue) - 1) |-> IF i < k THEN queue[i] ELSE queue[i + 1]]

RECURSIVE MatchLoop(_, _, _, _)
\* the for loop of _trade_statistics: open_trades maps the symbols seen in
\* a BUY to their queue of open BUYs; the result is round_trips
MatchLoop(trades, i, open_trades, round_trips) ==
    IF i > Len(trades) THEN round_trips
    ELSE
      LET trade == trades[i]
          known == trade.symbol \in DOMAIN open_trades
      IN  IF trade.side = BUY
          THEN LET queue == IF known THEN open_trades[trade.symbol] ELSE <<>>
               IN  MatchLoop(trades, i + 1,
                     [sym \in DOMAIN open_trades \cup {trade.symbol} |->
                         IF sym = trade.symbol THEN Append(queue, trade)
                         ELSE open_trades[sym]],
                     round_trips)
          ELSE IF known /\ Len(open_trades[trade.symbol]) > 0
               THEN LET queue == open_trades[trade.symbol]
                        k == pop_index(queue)
                    IN  MatchLoop(trades, i + 1,
                          [open_trades EXCEPT ![trade.symbol] = Remove(queue, k)],
                          Append(round_trips, pnl_pct(queue[k], trade)))
               ELSE MatchLoop(trades, i + 1, open_trades, round_trips)

RECURSIVE sum(_, _)
sum(rs, i) == IF i > Len(rs) THEN Zero ELSE RAdd(rs[i], sum(rs, i + 1))

RECURSIVE StreakLoop(_, _, _)
\* the for loop of _consecutive_streaks; acc holds the four counters
StreakLoop(returns, i, acc) ==
    IF i > Len(returns) THEN acc
    ELSE IF RGt(returns[i], Zero)
         THEN LET w == acc.current_wins + 1
              IN  StreakLoop(returns, i + 1,
                     [acc EXCEPT !.current_wins = w, !.current_losses = 0,
                                 !.max_wins = IF w > @ THEN w ELSE @])
         ELSE LET l == acc.current_losses + 1
              IN  StreakLoop(returns, i + 1,
                     [acc EXCEPT !.current_losses = l, !.current_wins = 0,
                                 !.max_losses = IF l > @ THEN l ELSE @])

_consecutive_streaks(returns) ==
    LET acc == StreakLoop(returns, 1,
                  [max_wins |-> 0, max_losses |-> 0,
                   current_wins |-> 0, current_losses |-> 0])
    IN  <<acc.max_wins, acc.max_losses>>

\* Faulty variant of the ratio: without losses it is the gains themselves.
profit_factor_GainsWhenNoLoss(total_gains, total_losses) ==
    IF RGt(total_losses, Zero) THEN RDiv(total_gains, total_losses)
    ELSE total_gains

\* (total_gains / total_losses) if total_losses > 0 else float("inf")
profit_factor(total_gains, total_losses) ==
    IF RGt(total_losses, Zero) THEN RDiv(total_gains, total_losses) ELSE Inf

\* _trade_statistics: the dict returned, with the local round_trips
_trade_statistics(trades) ==
    LET round_trips == MatchLoop(trades, 1, [sym \in {} |-> <<>>], <<>>)
        total_trades == Len(round_trips)
        winning == SelectSeq(round_trips, LAMBDA r : RGt(r, Zero))
        losing == SelectSeq(round_trips, LAMBDA r : RLe(r, Zero))
        total_gains == IF Len(winning) > 0 THEN sum(winning, 1) ELSE Zero
        total_losses == IF Len(losing) > 0 THEN RAbs(sum(losing, 1)) ELSE Zero
        streaks == _consecutive_streaks(round_trips)
    IN  IF total_trades = 0
        THEN [win_rate |-> Zero, total_trades |-> 0, winning_trades |-> 0,
              losing_trades |-> 0, profit_factor |-> Zero,
              avg_trade_return_pct |-> Zero, max_consecutive_wins |-> 0,
              max_consecutive_losses |-> 0, round_trips |-> round_trips]
        ELSE [win_rate |-> RMul(RDiv(F(Len(winning)), F(total_trades)),
                                F(100)),
              total_trades |-> total_trades,
              winning_trades |-> Len(winning),
              losing_trades |-> Len(losing),
              profit_factor |-> profit_factor(total_gains, total_losses),
              avg_trade_return_pct |->
                  RDiv(sum(round_trips, 1), F(total_trades)),
              max_consecutive_wins |-> streaks[1],
              max_consecutive_losses |-> streaks[2],
              round_trips |-> round_trips]

\* a caller applies _trade_statistics to the portfolio's trade log
CallTradeStatistics ==
    /\ pc = "finished"
    /\ metrics' = [op |-> "_trade_statistics",
                   value |-> _trade_statistics(portfolio.trades)]
    /\ UNCHANGED <<portfolio, lastCall, nCalls, made, engine, pc, data,
                   prepared_data, trading_dates, dateIdx, callbacks, error,
                   strategy, CUSTOM_INDICATORS, runs>>

\* --- _annualized_return.  A power ratio ** e is not a rational number; on
\* ratios that are powers of two it is 2 ** (log2(ratio) * e), so a return
\* of v percent is held as the rational log2(1 + v / 100), which is zero
\* exactly when v is.

IsPowerOfTwo(r) ==
    \E k \in 0..30 : r = <<2 ^ k, 1>> \/ r = <<1, 2 ^ k>>

\* log2 of a power of two
Log2(r) ==
    LET k == CHOOSE j \in 0..30 : r = <<2 ^ j, 1>> \/ r = <<1, 2 ^ j>>
    IN  IF r = <<2 ^ k, 1>> THEN F(k) ELSE F(-k)

\* the float v held as log2(1 + v / 100)
Pct(log2_growth) == [log2_growth |-> log2_growth]

\* Faulty variant of the year count: calendar days are used.
years_of_Calendar(num_days) == RDiv(F(num_days), F(365))

\* years = num_days / TRADING_DAYS_PER_YEAR
years_of(num_days) == RDiv(F(num_days), F(TRADING_DAYS_PER_YEAR))

_annualized_return(curve, initial_capital) ==
    IF Len(curve) < 2 THEN Pct(Zero)
    ELSE LET final_equity == curve[Len(curve)].equity
             total_return_ratio == RDiv(final_equity, initial_capital)
             num_days == Len(curve)
             years == years_of(num_days)
         IN  IF RLe(years, Zero) \/ RLe(total_return_ratio, Zero)
             THEN Pct(Zero)
             ELSE Pct(RMul(Log2(total_return_ratio), RDiv(F(1), years)))

\* the curves on which the held value is exact
AnnualizedExact(curve, initial_capital) ==
    IF Len(curve) = 0 THEN TRUE
    ELSE IF RLe(curve[Len(curve)].equity, Zero) THEN TRUE
    ELSE IsPowerOfTwo(RDiv(curve[Len(curve)].equity, initial_capital))

\* a caller applies _annualized_return to the portfolio's curve
CallAnnualizedReturn ==
    /\ pc = "finished"
    /\ AnnualizedExact(equity_curve(portfolio), portfolio.initial_capital)
    /\ metrics' = [op |-> "_annualized_return",
                   value |-> _annualized_return(equity_curve(portfolio),
                                                portfolio.initial_capital)]
    /\ UNCHANGED <<portfolio, lastCall, nCalls, made, engine, pc, data,
                   prepared_data, trading_dates, dateIdx, callbacks, error,
                   strategy, CUSTOM_INDICATORS, runs>>

\* --- _sharpe_ratio.  A standard deviation is held as its square, and the
\* ratio s as its sign and its square; NaN is the square of an undefined one.

\* equities.pct_change().dropna(), for positive equities
pct_change_dropna(equities) ==
    [i \in 1..(Len(equities) - 1) |->
        RSub(RDiv(equities[i + 1], equities[i]), F(1))]

mean(xs) == RDiv(sum(xs, 1), F(Len(xs)))

\* Faulty variant of std: the population deviation (ddof = 0).
std_squared_Population(xs) ==
    IF Len(xs) < 1 THEN NaN
    ELSE LET m == mean(xs)
             sq == [i \in 1..Len(xs) |-> RMul(RSub(xs[i], m), RSub(xs[i], m))]
         IN  RDiv(sum(sq, 1), F(Len(xs)))

\* the square of Series.std(): pandas divides by n - 1, and a series of
\* fewer than two values has no deviation (NaN)
std_squared(xs) ==
    IF Len(xs) < 2 THEN NaN
    ELSE LET m == mean(xs)
             sq == [i \in 1..Len(xs) |-> RMul(RSub(xs[i], m), RSub(xs[i], m))]
         IN  RDiv(sum(sq, 1), F(Len(xs) - 1))

Sign(x) == IF x[1] > 0 THEN 1 ELSE IF x[1] < 0 THEN -1 ELSE 0

SharpeZero == [sign |-> 0, square |-> Zero]
SharpeNaN == [sign |-> 0, square |-> NaN]

_sharpe_ratio(curve, risk_free_rate) ==
    IF Len(curve) < 2 THEN SharpeZero
    ELSE
      LET equities == [i \in 1..Len(curve) |-> curve[i].equity]
          daily_returns == pct_change_dropna(equities)
      IN  IF std_squared(daily_returns) = Zero THEN SharpeZero
          ELSE
            LET daily_rf == RDiv(risk_free_rate, F(TRADING_DAYS_PER_YEAR))
                excess_returns == [i \in 1..Len(daily_returns) |->
                                      RSub(daily_returns[i], daily_rf)]
                m == mean(excess_returns)
                v == std_squared(excess_returns)
            IN  IF v = NaN THEN SharpeNaN
                ELSE [sign |-> Sign(m),
                      square |-> RMul(RDiv(RMul(m, m), v),
                                      F(TRADING_DAYS_PER_YEAR))]

\* the curves whose daily returns are finite
SharpeExact(curve) ==
    \A i \in 1..Len(curve) :
        RGt(curve[i].equity, Zero) /\ IsPowerOfTwo(curve[i].equity)

\* a caller applies _sharpe_ratio to the portfolio's curve
CallSharpeRatio ==
    /\ pc = "finished"
    /\ SharpeExact(equity_curve(portfolio))
    /\ metrics' = [op |-> "_sharpe_ratio",
                   value |-> _sharpe_ratio(equity_curve(portfolio), Zero)]
    /\ UNCHANGED <<portfolio, lastCall, nCalls, made, engine, pc, data,
                   prepared_data, trading_dates, dateIdx, callbacks, error,
                   strategy, CUSTOM_INDICATORS, runs>>

\* --- the finished portfolios the functions are applied to ---
EquityValues == {0, 2, 4, 8}

Curves ==
    UNION {[1..n -> EquityValues] : n \in 0..MaxCurve}
    \cup {<<100, 120, 90, 110>>}

\* the trades of a log: one share per trade, the commission charged at `rate`
TradeInputs(rate) ==
    {Trade(symbol, side, F(1), F(price), RMul(F(price), rate), strftime(1)) :
        symbol \in Symbols, side \in {BUY, SELL}, price \in Prices}

Finished(initial_capital, commission_rate, curve, trades) ==
    [initial_capital |-> initial_capital,
     commission_rate |-> commission_rate,
     cash |-> IF Len(curve) = 0 THEN initial_capital
              ELSE F(curve[Len(curve)]),
     positions |-> <<>>,
     trades |-> trades,
     equity_history |->
         [i \in 1..Len(curve) |->
             [date |-> strftime(i), equity |-> F(curve[i]),
              cash |-> F(curve[i])]]]

InitPerformance ==
    /\ \/ \E capital \in {2, 4}, curve \in Curves :
             portfolio = Finished(F(capital), Zero, curve, <<>>)
       \/ \E rate \in {Zero, Norm(1, 10)}, n \in 0..MaxTrades :
             \E trades \in [1..n -> TradeInputs(rate)] :
                portfolio = Finished(F(4), rate, <<4>>, trades)
    /\ engine = [initial_capital |-> portfolio.initial_capital,
                 commission_rate |-> portfolio.commission_rate]
    /\ lastCall = NoCall
    /\ nCalls = 0
    /\ made = 1
    /\ pc = "finished"
    /\ data = <<>>
    /\ prepared_data = <<>>
    /\ trading_dates = <<>>
    /\ dateIdx = 0
    /\ callbacks = <<>>
    /\ error = ""
    /\ strategy = NoStrategy
    /\ CUSTOM_INDICATORS = {}
    /\ runs = <<>>
    /\ metrics = NoMetrics

NextPerformance ==
    \/ CallMaxDrawdown
    \/ CallAnnualizedReturn
    \/ CallSharpeRatio
    \/ CallTradeStatistics

SpecPerformance == InitPerformance /\ [][NextPerformance]_vars

----------------------------------------------------------------------------
(* Properties of the metric functions (checked under SpecPerformance)      *)

\* the equities e_1 .. e_n of the portfolio's curve
Equities ==
    [i \in 1..Len(portfolio.equity_history) |->
        portfolio.equity_history[i].equity]

\* peak_i = max(e_1 .. e_i)
PeakAt(i) ==
    CHOOSE m \in {Equities[k] : k \in 1..i} :
        \A k \in 1..i : RGe(m, Equities[k])

\* (e_i - peak_i) / peak_i * 100, and 0 when peak_i <= 0
DrawdownAt(i) ==
    IF RLe(PeakAt(i), Zero) THEN Zero
    ELSE RMul(RDiv(RSub(Equities[i], PeakAt(i)), PeakAt(i)), F(100))

\* C15: max_drawdown is the least of the drawdowns from the running peak
\* (0 where the peak is not positive); it is never positive, it is 0 for
\* an empty curve and for a curve that never falls below its running peak,
\* and [100, 120, 90, 110] gives -25.
C15_MaxDrawdown ==
    metrics.op = "_max_drawdown" =>
        LET n == Len(Equities)
            terms == {DrawdownAt(i) : i \in 1..n}
        IN  /\ n = 0 => metrics.value = Zero
            /\ n > 0 => /\ metrics.value \in terms
                        /\ \A t \in terms : RLe(metrics.value, t)
            /\ RLe(metrics.value, Zero)
            /\ (\A i \in 1..n : Equities[i] = PeakAt(i)) => metrics.value = Zero
            /\ Equities = <<F(100), F(120), F(90), F(110)>> =>
                   metrics.value = F(-25)

\* _max_drawdown was applied to [100, 120, 90, 110] and returned -25
C15_Witness ==
    /\ metrics.op = "_max_drawdown"
    /\ Equities = <<F(100), F(120), F(90), F(110)>>
    /\ metrics.value = F(-25)

\* the trade log the statistics are computed from
Log == portfolio.trades

IsBuy(k) == Log[k].side = BUY
IsSell(k) == Log[k].side = SELL
SameSymbol(j, k) == Log[j].symbol = Log[k].symbol

\* the BUYs of the symbol of trade j that precede j
BuysBefore(j) == {k \in 1..(j - 1) : IsBuy(k) /\ SameSymbol(j, k)}

RECURSIVE Matched(_)
\* SELL j finds a BUY of its symbol that no earlier SELL has taken
Matched(j) ==
    /\ IsSell(j)
    /\ Cardinality(BuysBefore(j)) >
          Cardinality({k \in 1..(j - 1) :
                          IsSell(k) /\ SameSymbol(j, k) /\ Matched(k)})

MatchedSells == {j \in DOMAIN Log : Matched(j)}

\* the oldest BUY of the symbol of SELL j that no earlier SELL has taken
PartnerOf(j) ==
    LET taken == Cardinality({k \in 1..(j - 1) :
                    IsSell(k) /\ SameSymbol(j, k) /\ Matched(k)})
    IN  CHOOSE b \in BuysBefore(j) :
            Cardinality({k \in BuysBefore(j) : k < b}) = taken

\* (sell_revenue - buy_cost) / buy_cost * 100 with buy_cost = quantity *
\* price + commission of the BUY and sell_revenue = quantity * price -
\* commission of the SELL
ReturnOf(b, j) ==
    LET buy_cost == RAdd(RMul(Log[b].quantity, Log[b].price),
                         Log[b].commission)
        sell_revenue == RSub(RMul(Log[j].quantity, Log[j].price),
                             Log[j].commission)
    IN  RMul(RDiv(RSub(sell_revenue, buy_cost), buy_cost), F(100))

\* the round trips of the matched SELLs, in the order of the SELLs
TripsInSellOrder ==
    LET order == sorted(MatchedSells)
    IN  [k \in 1..Len(order) |-> ReturnOf(PartnerOf(order[k]), order[k])]

\* C16 as stated: every SELL is paired with the oldest unmatched BUY of its
\* symbol and forms one round trip, so there are as many round trips as
\* SELLs.
C16_EverySellFormsARoundTrip ==
    metrics.op = "_trade_statistics" =>
        /\ metrics.value.total_trades =
              Cardinality({j \in DOMAIN Log : IsSell(j)})
        /\ \A j \in DOMAIN Log : IsSell(j) => Matched(j)

\* C16 (amended): the round trips are those of the SELLs that find a BUY
\* of their symbol not yet taken, each paired with the oldest such BUY, in
\* the order of the SELLs; a SELL that finds none forms no round trip; no
\* BUY is used twice or for another symbol; total_trades is their number.
C16_FifoPairingOfMatchedSells ==
    metrics.op = "_trade_statistics" =>
        /\ metrics.value.round_trips = TripsInSellOrder
        /\ metrics.value.total_trades = Cardinality(MatchedSells)
        /\ \A j \in MatchedSells :
              /\ IsBuy(PartnerOf(j)) /\ PartnerOf(j) < j
              /\ SameSymbol(j, PartnerOf(j))
              /\ \A b \in BuysBefore(j) :
                    b < PartnerOf(j) =>
                        \E k \in MatchedSells : k < j /\ PartnerOf(k) = b
        /\ \A j, k \in MatchedSells : j # k => PartnerOf(j) # PartnerOf(k)

\* two BUYs of one symbol at different prices, then a SELL of it: one round
\* trip, with the first BUY
C16_Witness ==
    /\ metrics.op = "_trade_statistics"
    /\ Len(Log) = 3
    /\ IsBuy(1) /\ IsBuy(2) /\ IsSell(3)
    /\ SameSymbol(1, 2) /\ SameSymbol(2, 3)
    /\ ReturnOf(1, 3) # ReturnOf(2, 3)
    /\ metrics.value.round_trips = <<ReturnOf(1, 3)>>

\* C17: the return of a round trip is (sell_revenue - buy_cost) / buy_cost
\* * 100 with the commissions on both sides; a trip is winning when its
\* return is positive and losing otherwise, so the two counts add up to
\* total_trades; win_rate is winning / total * 100, and 0 without trips.
C17_ReturnsAndWinRate ==
    metrics.op = "_trade_statistics" =>
        LET trips == metrics.value.round_trips
            order == sorted(MatchedSells)
            won == {k \in DOMAIN trips : RGt(trips[k], Zero)}
            lost == {k \in DOMAIN trips : RLe(trips[k], Zero)}
            total == metrics.value.total_trades
        IN  /\ Len(trips) = Len(order)
            /\ \A k \in DOMAIN trips :
                  trips[k] = ReturnOf(PartnerOf(order[k]), order[k])
            /\ metrics.value.winning_trades = Cardinality(won)
            /\ metrics.value.losing_trades = Cardinality(lost)
            /\ metrics.value.winning_trades + metrics.value.losing_trades
                  = total
            /\ total = 0 => metrics.value.win_rate = Zero
            /\ total > 0 =>
                  metrics.value.win_rate =
                      RMul(RDiv(F(Cardinality(won)), F(total)), F(100))

\* with a commission of a tenth on both sides, a share bought at 1 and sold
\* at 2 (a trip of 700/11 percent) and then a share bought and sold at a
\* loss: one winning and one losing trip, win rate 50
C17_Witness ==
    /\ metrics.op = "_trade_statistics"
    /\ portfolio.commission_rate = Norm(1, 10)
    /\ Len(metrics.value.round_trips) = 2
    /\ metrics.value.round_trips[1] = Norm(700, 11)
    /\ RLt(metrics.value.round_trips[2], Zero)
    /\ metrics.value.winning_trades = 1
    /\ metrics.value.losing_trades = 1
    /\ metrics.value.win_rate = F(50)

\* the sum of the positive returns and the sum of the others, over the
\* round trips
SumWhere(trips, S) ==
    sum([k \in DOMAIN trips |-> IF k \in S THEN trips[k] ELSE Zero], 1)

\* C18: profit_factor is 0 without round trips, +infinity with a winning
\* trip and no losing trip (return <= 0), and in every other case the
\* finite ratio of the sum of the positive returns to the absolute value of
\* the sum of the others.
C18_ProfitFactor ==
    metrics.op = "_trade_statistics" =>
        LET trips == metrics.value.round_trips
            won == {k \in DOMAIN trips : RGt(trips[k], Zero)}
            lost == {k \in DOMAIN trips : RLe(trips[k], Zero)}
            gains == SumWhere(trips, won)
            losses == RAbs(SumWhere(trips, lost))
        IN  IF Len(trips) = 0 THEN metrics.value.profit_factor = Zero
            ELSE IF won # {} /\ lost = {}
                 THEN metrics.value.profit_factor = Inf
                 ELSE /\ metrics.value.profit_factor # Inf
                      /\ losses # Zero =>
                            metrics.value.profit_factor = RDiv(gains, losses)

\* ratio = final equity / initial capital of a non-empty curve
Ratio == RDiv(Equities[Len(Equities)], portfolio.initial_capital)

\* (ratio ^ (1 / years) - 1) * 100 with years = n / 252, held as its
\* log2(1 + v / 100) = log2(ratio) * 252 / n
AnnualizedFormula ==
    Pct(RDiv(RMul(Log2(Ratio), F(252)), F(Len(Equities))))

\* C19 as stated: annualized_return is 0 when years <= 0 or ratio <= 0, and
\* for every non-empty curve with ratio > 0, a single-point curve included,
\* it is (ratio ^ (1 / years) - 1) * 100.
C19_AnnualizedReturn ==
    metrics.op = "_annualized_return" =>
        IF Len(Equities) = 0 THEN metrics.value = Pct(Zero)
        ELSE IF RLe(Ratio, Zero) THEN metrics.value = Pct(Zero)
        ELSE metrics.value = AnnualizedFormula

\* C19 (amended): annualized_return is 0 when the curve has fewer than two
\* points or ratio <= 0, and for every curve of two points or more with
\* ratio > 0 it is (ratio ^ (1 / years) - 1) * 100.
C19_AnnualizedReturnFromTwoPoints ==
    metrics.op = "_annualized_return" =>
        IF Len(Equities) < 2 THEN metrics.value = Pct(Zero)
        ELSE IF RLe(Ratio, Zero) THEN metrics.value = Pct(Zero)
        ELSE metrics.value = AnnualizedFormula

\* a curve of two points that ends at twice the initial capital: the
\* return is 2 ^ 126 - 1, as a percentage
C19_Witness ==
    /\ metrics.op = "_annualized_return"
    /\ Len(Equities) = 2
    /\ Ratio = F(2)
    /\ metrics.value = Pct(F(126))

\* the daily returns e_(i+1) / e_i - 1 of the curve
Returns ==
    [i \in 1..(Len(Equities) - 1) |->
        RSub(RDiv(Equities[i + 1], Equities[i]), F(1))]

MeanReturn == RDiv(sum(Returns, 1), F(Len(Returns)))

\* the square of the sample standard deviation of three returns or more
ReturnVariance ==
    RDiv(sum([i \in DOMAIN Returns |->
                 RMul(RSub(Returns[i], MeanReturn),
                      RSub(Returns[i], MeanReturn))], 1),
         F(Len(Returns) - 1))

\* C20: sharpe_ratio is 0 for fewer than two points and for returns of
\* standard deviation 0; for every other curve, a two-point curve included,
\* it is the number mean / std * sqrt(252), and it is never undefined.
C20_SharpeRatioIsDefined ==
    metrics.op = "_sharpe_ratio" =>
        /\ metrics.value.square # NaN
        /\ Len(Equities) < 2 => metrics.value = SharpeZero
        /\ Len(Equities) > 2 =>
              IF ReturnVariance = Zero THEN metrics.value = SharpeZero
              ELSE metrics.value =
                     [sign |-> Sign(MeanReturn),
                      square |-> RMul(RDiv(RMul(MeanReturn, MeanReturn),
                                           ReturnVariance), F(252))]


----------------------------------------------------------------------------
(* Position and cash bookkeeping against the trade log (strategy.py) *)

\* C23: after any sequence of buys and partial or full sells, every position
\* has cost_basis = quantity * avg_price.
C23_CostBasisIsQuantityTimesAvgPrice ==
    \A i \in 1..Len(portfolio.positions) :
        portfolio.positions[i].cost_basis =
            RMul(portfolio.positions[i].quantity,
                 portfolio.positions[i].avg_price)

\* a partial sell just reduced a position that two buys at different prices
\* had built, and the position is still open
C23_Witness ==
    /\ lastCall.op = "sell" /\ Accepted(lastCall)
    /\ is_open(Held(portfolio, lastCall.symbol))
    /\ \E i, j \in 1..Len(lastCall.before.trades) :
          /\ i < j
          /\ lastCall.before.trades[i].side = BUY
          /\ lastCall.before.trades[j].side = BUY
          /\ lastCall.before.trades[i].symbol = lastCall.symbol
          /\ lastCall.before.trades[j].symbol = lastCall.symbol
          /\ lastCall.before.trades[i].price # lastCall.before.trades[j].price

\* C27: a rejected buy or sell leaves the set of symbols of the positions
\* map as it was; a sell rejected for a symbol without a position creates
\* no entry for it.
C27_RejectionKeepsPositionSymbols ==
    (/\ lastCall.op \in {"buy", "sell"}
     /\ ~Accepted(lastCall))
    => PositionSymbols(portfolio) = PositionSymbols(lastCall.before)

\* The cash flow of the first n trades of a log: minus cost plus commission
\* for a BUY, plus revenue minus commission for a SELL.
RECURSIVE CashFlow(_, _)
CashFlow(trades, n) ==
    IF n = 0 THEN Zero
    ELSE LET t == trades[n]
             gross == RMul(t.quantity, t.price)
         IN  IF t.side = BUY
             THEN RSub(CashFlow(trades, n - 1), RAdd(gross, t.commission))
             ELSE RAdd(CashFlow(trades, n - 1), RSub(gross, t.commission))

\* C28: cash is initial_capital minus, over the BUY trades, quantity*price
\* plus commission, plus, over the SELL trades, quantity*price minus
\* commission; every recorded commission is quantity*price*commission_rate.
C28_CashFromTradeLog ==
    /\ portfolio.cash =
           RAdd(portfolio.initial_capital,
                CashFlow(portfolio.trades, Len(portfolio.trades)))
    /\ \A i \in 1..Len(portfolio.trades) :
           portfolio.trades[i].commission =
               RMul(RMul(portfolio.trades[i].quantity,
                         portfolio.trades[i].price),
                    portfolio.commission_rate)

\* the log holds a BUY and a SELL that both paid a commission, and the
\* last call was a rejected order
C28_Witness ==
    /\ RGt(portfolio.commission_rate, Zero)
    /\ \E i, j \in 1..Len(portfolio.trades) :
          /\ portfolio.trades[i].side = BUY
          /\ portfolio.trades[j].side = SELL
          /\ RGt(portfolio.trades[j].commission, Zero)
    /\ lastCall.op \in {"buy", "sell"} /\ ~Accepted(lastCall)

\* BUY quantities minus SELL quantities of a symbol over the first n trades.
RECURSIVE NetQuantity(_, _, _)
NetQuantity(trades, symbol, n) ==
    IF n = 0 THEN Zero
    ELSE LET t == trades[n]
             rest == NetQuantity(trades, symbol, n - 1)
         IN  IF t.symbol # symbol THEN rest
             ELSE IF t.side = BUY THEN RAdd(rest, t.quantity)
             ELSE RSub(rest, t.quantity)

SellCount(trades, symbol) ==
    Cardinality({i \in 1..Len(trades) :
                    trades[i].symbol = symbol /\ trades[i].side = SELL})

\* C29: no position is short: every quantity is >= 0, and it is the sum of
\* the symbol's BUY quantities minus the sum of its SELL quantities, short
\* of it only by what the sells snapped to zero (less than the threshold
\* for each sell).
C29_NoShortPositions ==
    \A s \in Symbols :
        LET quantity == Held(portfolio, s).quantity
            net == NetQuantity(portfolio.trades, s, Len(portfolio.trades))
            snapped == RSub(net, quantity)
        IN  /\ RGe(quantity, Zero)
            /\ RGe(snapped, Zero)
            /\ SellCount(portfolio.trades, s) = 0 => snapped = Zero
            /\ RLe(snapped, Zero) \/
                   RLt(snapped, RMul(F(EPS),
                                     F(SellCount(portfolio.trades, s))))

\* a sell snapped a non-zero remainder to zero and the symbol was bought
\* again: the position is open and below the net of the log
C29_Witness ==
    \E s \in Symbols :
        /\ is_open(Held(portfolio, s))
        /\ RLt(Held(portfolio, s).quantity,
               NetQuantity(portfolio.trades, s, Len(portfolio.trades)))
        /\ lastCall.op = "buy" /\ Accepted(lastCall)

----------------------------------------------------------------------------
(* Properties of a run: what on_bar is handed (checked under Spec)         *)

\* C24: every on_bar call of a run is handed a bar_data with exactly one row
\* for every symbol of the list on_start was given, the row being the
\* symbol's data of the call's date in the frames passed to run; no symbol
\* is missing and no date of the calendar goes without its on_bar call.
C24_BarDataIsComplete ==
    /\ \A i \in 2..Len(callbacks) :
          callbacks[i].name = "on_bar" =>
              LET day == trading_dates[i - 1]
                  bar_data == _get_bar_data(prepared_data, day)
              IN  /\ callbacks[i].symbols = callbacks[1].symbols
                  /\ SymbolList(bar_data) = callbacks[i].symbols
                  /\ \A k, l \in 1..Len(bar_data) :
                        k # l => bar_data[k].symbol # bar_data[l].symbol
                  /\ \A k \in 1..Len(bar_data) :
                        /\ bar_data[k].symbol \in DOMAIN ClosesOn(day)
                        /\ bar_data[k].close =
                               ClosesOn(day)[bar_data[k].symbol]
    /\ pc = "loop" => BarCalls = dateIdx - 1
    /\ pc = "on_bar" => BarCalls = dateIdx

\* the second on_bar of a run over two symbols is in progress, and one of
\* the frames holds a day that is not in the calendar
C24_Witness ==
    /\ pc = "on_bar"
    /\ dateIdx = 2
    /\ Len(callbacks[Len(callbacks)].symbols) = 2
    /\ \E i \in DOMAIN data : \E d \in DOMAIN data[i].df :
          \A j \in DOMAIN trading_dates : trading_dates[j] # d

----------------------------------------------------------------------------
(* Properties of a run: symbols with an empty series (checked under Spec)  *)

RECURSIVE KeptSymbols(_)
\* the symbols of the first n entries of the input whose series is
\* non-empty, in the order of the input
KeptSymbols(n) ==
    IF n = 0 THEN <<>>
    ELSE IF n \in NonEmptyEntries
         THEN Append(KeptSymbols(n - 1), data[n].symbol)
         ELSE KeptSymbols(n - 1)

EmptySymbols == {data[i].symbol : i \in (1..Len(data)) \ NonEmptyEntries}

\* C25: a symbol with an empty series is skipped without error.  When
\* another symbol has a non-empty series, the run goes on as it would
\* without the empty one: the calendar is the intersection of the date sets
\* of the non-empty series, the run fails only if that intersection is
\* empty, and the skipped symbol is in no symbol list given to on_start, in
\* no bar_data and in no price map used for a snapshot.  When every series
\* is empty the run fails with the no-overlapping-dates error.
C25_EmptySeriesAreSkipped ==
    (pc # "created" /\ Len(data) > 0) =>
        /\ NonEmptyEntries = {} =>
               /\ pc = "raised"
               /\ error = "No overlapping trading dates found"
        /\ NonEmptyEntries # {} =>
               (pc = "raised" <=> CommonDatesOfNonEmpty = {})
        /\ pc # "raised" =>
               /\ error = ""
               /\ trading_dates = sorted(CommonDatesOfNonEmpty)
               /\ callbacks[1].symbols = KeptSymbols(Len(data))
               /\ \A i \in 1..Len(callbacks) :
                      \A k \in 1..Len(callbacks[i].symbols) :
                          callbacks[i].symbols[k] \notin EmptySymbols
               /\ \A i \in 1..Len(trading_dates) :
                      DOMAIN _get_current_prices(prepared_data,
                                                 trading_dates[i])
                          \cap EmptySymbols = {}

\* a run over one symbol with an empty series and one with rows on two days
\* or more has returned, the empty symbol coming first in the input
C25_Witness ==
    /\ pc = "returned"
    /\ Len(data) = 2
    /\ DOMAIN data[1].df = {}
    /\ Len(trading_dates) >= 2
    /\ Len(portfolio.equity_history) = Len(trading_dates)
    /\ callbacks[1].symbols = <<data[2].symbol>>

\* a run over symbols whose series are all empty has raised
C25_WitnessAllEmpty ==
    /\ pc = "raised"
    /\ Len(data) = 2
    /\ NonEmptyEntries = {}

----------------------------------------------------------------------------
(* Properties of a run: on_start, on_end and the snapshots (checked under  *)
(* Spec)                                                                   *)

\* the order was made inside on_end: every date's snapshot existed when it
\* was made
MadeInOnEnd(call) ==
    /\ call.op \in {"buy", "sell"}
    /\ Len(trading_dates) > 0
    /\ Len(call.before.equity_history) = Len(trading_dates)

\* what holds of the snapshots in every state of a run
C30_State ==
    LET history == portfolio.equity_history
        n == Len(trading_dates)
    IN  /\ (pc = "on_start" \/ (pc = "loop" /\ dateIdx = 1)) =>
               history = <<>>
        /\ (pc = "loop" /\ n > 0 /\ dateIdx = n + 1) =>
               /\ Len(history) = n
               /\ history[n] = SnapshotOf(portfolio, trading_dates[n])
        /\ pc \in {"on_end", "returned"} =>
               /\ Len(history) = n
               /\ \A i \in 1..n : history[i].date = strftime(trading_dates[i])
               /\ pc = "returned" =>
                      runs[Len(runs)].result = portfolio
               /\ (MadeInOnEnd(lastCall) /\ Accepted(lastCall)) =>
                      /\ history = lastCall.before.equity_history
                      /\ portfolio.trades[Len(portfolio.trades)] =
                             lastCall.ret[1]

\* what holds of every step: the snapshots are as they were when on_end is
\* called, and after every step taken inside on_start or on_end, their
\* return included
C30_Step ==
    (pc \in {"on_start", "on_end"} \/ pc' = "on_end") =>
        portfolio'.equity_history = portfolio.equity_history

\* C30: on_start and on_end produce no snapshot, whatever orders the
\* strategy places in them: no snapshot exists until the first on_bar has
\* returned, and from the call of on_end on equity_history holds exactly one
\* snapshot per date of the calendar.  The last snapshot is that of the
\* portfolio as the last on_bar left it and stays as it is: a trade made
\* inside on_end is in the returned trade log and cash, and in no snapshot.
C30_NoSnapshotOutsideTheLoop == [](C30_State) /\ [][C30_Step]_vars

\* run has returned after on_end bought: the trade is the last of the
\* returned log, and the last snapshot still shows the cash before it
C30_Witness ==
    /\ pc = "returned"
    /\ MadeInOnEnd(lastCall) /\ lastCall.op = "buy" /\ Accepted(lastCall)
    /\ Len(trading_dates) >= 2
    /\ LET result == runs[Len(runs)].result
       IN  /\ result.trades[Len(result.trades)] = lastCall.ret[1]
           /\ RLt(result.cash,
                  result.equity_history[Len(result.equity_history)].cash)

----------------------------------------------------------------------------
(* indicators.py: rsi, applied to the close column of one frame.  A Series *)
(* is a sequence of floats; its positions 1..n are the rows 0..n-1.        *)

MaxLen == 4        \* rows of the series
MaxPeriod == 3     \* period is 1..MaxPeriod

SeriesValues == {1, 2, 3}

isna(x) == x = NaN

\* series.diff(): the first row has no predecessor
diff(series) ==
    [i \in 1..Len(series) |->
        IF i = 1 THEN NaN ELSE RSub(series[i], series[i - 1])]

\* delta.where(delta > 0, 0.0): a comparison with NaN is False
gains_of(delta) ==
    [i \in 1..Len(delta) |->
        IF ~isna(delta[i]) /\ RGt(delta[i], Zero) THEN delta[i] ELSE Zero]

\* (-delta).where(delta < 0, 0.0)
losses_of(delta) ==
    [i \in 1..Len(delta) |->
        IF ~isna(delta[i]) /\ RLt(delta[i], Zero)
        THEN RSub(Zero, delta[i]) ELSE Zero]

RECURSIVE ewm_weighted(_, _, _)
\* the recursion of ewm(adjust=False) on a series without NaN:
\* y_0 = x_0, y_t = (1 - alpha) * y_(t-1) + alpha * x_t
ewm_weighted(xs, alpha, i) ==
    IF i = 1 THEN xs[1]
    ELSE RAdd(RMul(RSub(F(1), alpha), ewm_weighted(xs, alpha, i - 1)),
              RMul(alpha, xs[i]))

\* Faulty variant of the smoothing: min_periods is left out, so that every row
\* has a value.
ewm_mean_NoMinPeriods(xs, alpha, min_periods) ==
    [i \in 1..Len(xs) |-> ewm_weighted(xs, alpha, i)]

\* xs.ewm(alpha=alpha, min_periods=min_periods, adjust=False).mean(): a row
\* has a value once min_periods observations were seen
ewm_mean(xs, alpha, min_periods) ==
    [i \in 1..Len(xs) |->
        IF i >= min_periods THEN ewm_weighted(xs, alpha, i) ELSE NaN]

avg_gain(series, period) ==
    ewm_mean(gains_of(diff(series)), Norm(1, period), period)

avg_loss(series, period) ==
    ewm_mean(losses_of(diff(series)), Norm(1, period), period)

\* float division of two Series rows, neither negative: no exception is
\* raised; x/0 is inf for x > 0 and NaN for x = 0, and NaN propagates
truediv(x, y) ==
    IF isna(x) \/ isna(y) THEN NaN
    ELSE IF y = Zero THEN (IF x = Zero THEN NaN ELSE Inf)
    ELSE RDiv(x, y)

\* 100.0 - (100.0 / (1.0 + rs)) for one row
rsi_of(rs) ==
    IF isna(rs) THEN NaN
    ELSE IF rs = Inf THEN F(100)
    ELSE RSub(F(100), RDiv(F(100), RAdd(F(1), rs)))

rsi(series, period) ==
    LET g == avg_gain(series, period)
        l == avg_loss(series, period)
    IN  [i \in 1..Len(series) |-> rsi_of(truediv(g[i], l[i]))]

\* the close column of the frame, in row order
close_column(df) == [i \in 1..Len(df) |-> F(df[i])]

\* rsi(df["close"], period) is called for some period
CallRsi ==
    /\ pc = "indicators"
    /\ metrics = NoMetrics
    /\ \E period \in 1..MaxPeriod :
          metrics' = [op |-> "rsi",
                      series |-> close_column(data[1].df),
                      period |-> period,
                      value |-> rsi(close_column(data[1].df), period)]
    /\ UNCHANGED <<portfolio, lastCall, nCalls, made, engine, pc, data,
                   prepared_data, trading_dates, dateIdx, callbacks, error,
                   strategy, CUSTOM_INDICATORS, runs>>

\* one frame of 1..MaxLen rows
InitIndicators ==
    /\ \E n \in 1..MaxLen : \E closes \in [1..n -> SeriesValues] :
          data = <<[symbol |-> "A", df |-> closes, columns |-> OHLCV]>>
    /\ pc = "indicators"
    /\ portfolio = NoPortfolio
    /\ engine = [initial_capital |-> Zero, commission_rate |-> Zero]
    /\ lastCall = NoCall
    /\ nCalls = 0
    /\ made = 0
    /\ prepared_data = <<>>
    /\ trading_dates = <<>>
    /\ dateIdx = 0
    /\ callbacks = <<>>
    /\ error = ""
    /\ strategy = NoStrategy
    /\ CUSTOM_INDICATORS = {}
    /\ runs = <<>>
    /\ metrics = NoMetrics

NextIndicators == CallRsi

SpecIndicators == InitIndicators /\ [][NextIndicators]_vars

----------------------------------------------------------------------------
(* Properties of rsi (checked under SpecIndicators)                        *)

\* the rows of the series rsi was called on, numbered from 0
Rows == IF metrics.op = "rsi" THEN 0..(Len(metrics.series) - 1) ELSE {}

RsiAt(k) == metrics.value[k + 1]
AvgGainAt(k) == avg_gain(metrics.series, metrics.period)[k + 1]
AvgLossAt(k) == avg_loss(metrics.series, metrics.period)[k + 1]

\* C22: at every row past the warm-up of any finite series, RSI is a
\* defined value in [0, 100], and it is exactly 100 where avg_loss is 0;
\* avg_loss = 0 yields no undefined value.
C22_RsiIsDefinedInRange ==
    \A k \in Rows :
        k >= metrics.period =>
            /\ ~isna(RsiAt(k))
            /\ RGe(RsiAt(k), Zero) /\ RLe(RsiAt(k), F(100))
            /\ AvgLossAt(k) = Zero => RsiAt(k) = F(100)

\* C26: RSI is undefined at exactly the first `period` rows (0..period-1)
\* and can be defined only from row `period` on.
C26_UndefinedForFirstPeriodRows ==
    \A k \in Rows : k <= metrics.period - 1 => isna(RsiAt(k))

\* What rsi does: the first row of gains and losses is 0.0, not NaN, and
\* counts as an observation, so avg_gain and avg_loss, and with them RSI,
\* are undefined at the rows 0..period-2 only; from row period-1 on both
\* averages are defined, and RSI is defined unless both are zero.
WarmUpIsPeriodMinusOneRows ==
    \A k \in Rows :
        /\ k <= metrics.period - 2 =>
               /\ isna(AvgGainAt(k)) /\ isna(AvgLossAt(k))
               /\ isna(RsiAt(k))
        /\ k >= metrics.period - 1 =>
               /\ ~isna(AvgGainAt(k)) /\ ~isna(AvgLossAt(k))
               /\ isna(RsiAt(k)) <=>
                      (AvgGainAt(k) = Zero /\ AvgLossAt(k) = Zero)

\* rsi was called with period 3 on a series of four rows that rises and
\* falls: rows 0 and 1 are undefined, row 2 holds a value below 100
WarmUpReached ==
    /\ metrics.op = "rsi"
    /\ metrics.period = 3
    /\ Len(metrics.series) = 4
    /\ isna(RsiAt(0)) /\ isna(RsiAt(1))
    /\ ~isna(RsiAt(2))
    /\ RGt(RsiAt(2), Zero) /\ RLt(RsiAt(2), F(100))

----------------------------------------------------------------------------
(* Two runs in progress at the same time (threads of one process), each    *)
(* with its own BacktestEngine, Strategy instance and Portfolio.  Here     *)
(* `runs` holds the local state of each run; CUSTOM_INDICATORS is the one  *)
(* module-level registry.  A step of a run is one statement of run up to   *)
(* the loops, and one iteration of a loop; on_start and on_end of the      *)
(* strategies of tests/test_engine.py are the inherited ones, which do     *)
(* nothing.                                                                *)

Threads == {1, 2}

\* the frames and locals of a call of run that has not started, with `seen`
\* the custom registry as it is when run is entered
RunLocals(params, st, d) ==
    [engine |-> params, strategy |-> st, data |-> d, pc |-> "created",
     i |-> 0, prepared_data |-> <<>>, trading_dates |-> <<>>, dateIdx |-> 0,
     portfolio |-> NoPortfolio, error |-> "", seen |-> {}]

\* `if not data: raise` (engine.py:54-55), then _prepare_data is entered
run_enter(r, custom) ==
    IF Len(r.data) = 0
    THEN [r EXCEPT !.pc = "raised",
                   !.error = "No data provided for backtest",
                   !.seen = custom]
    ELSE [r EXCEPT !.pc = "prepare", !.i = 1, !.seen = custom]

NotComputed == [raised |-> "", result |-> <<>>]

\* one iteration of the loop of _prepare_data, `computed` being what
\* compute_indicators gave for the frame; after the last one, the calendar,
\* the Portfolio and on_start (engine.py:57-69, 107-119)
run_prepare(r, computed) ==
    IF r.i <= Len(r.data)
    THEN IF DOMAIN r.data[r.i].df = {}
         THEN [r EXCEPT !.i = @ + 1]
         ELSE IF Len(r.strategy.indicators) > 0
              THEN IF computed.raised # ""
                   THEN [r EXCEPT !.pc = "raised", !.error = computed.raised]
                   ELSE [r EXCEPT !.prepared_data = Append(@, computed.result),
                                  !.i = @ + 1]
              ELSE [r EXCEPT !.prepared_data =
                                 Append(@, df_copy(r.data[r.i]).frame),
                             !.i = @ + 1]
    ELSE LET dates == _get_trading_dates(r.prepared_data)
         IN  IF Len(dates) = 0
             THEN [r EXCEPT !.pc = "raised",
                            !.error = "No overlapping trading dates found"]
             ELSE [r EXCEPT !.trading_dates = dates,
                            !.portfolio =
                                Portfolio(r.engine.initial_capital,
                                          r.engine.commission_rate),
                            !.dateIdx = 1,
                            !.pc = "loop"]

\* one iteration of `for date in trading_dates`; after the last one, on_end
\* and the return (engine.py:76-94)
run_bar(r) ==
    IF r.dateIdx > Len(r.trading_dates) THEN [r EXCEPT !.pc = "returned"]
    ELSE LET date == r.trading_dates[r.dateIdx]
             bar_data == _get_bar_data(r.prepared_data, date)
             current_prices == _get_current_prices(r.prepared_data, date)
             called == on_bar(r.strategy, date, bar_data, r.portfolio)
             st == IF Len(bar_data) > 0 THEN called.strategy ELSE r.strategy
             pf == IF Len(bar_data) > 0 THEN called.acc.pf ELSE r.portfolio
         IN  [r EXCEPT !.strategy = st,
                       !.portfolio = record_equity(pf, strftime(date),
                                                   current_prices),
                       !.dateIdx = @ + 1]

\* what compute_indicators gives for the frame the loop of run r is at
Computed(r) ==
    IF /\ r.i <= Len(r.data)
       /\ DOMAIN r.data[r.i].df # {}
       /\ Len(r.strategy.indicators) > 0
    THEN LET c == compute_indicators(r.data[r.i], r.strategy.indicators)
         IN  [raised |-> c.raised, result |-> c.result]
    ELSE NotComputed

idleVars == <<portfolio, lastCall, nCalls, made, engine, pc, data,
              prepared_data, trading_dates, dateIdx, callbacks, error,
              strategy, metrics>>

ThreadEnter ==
    /\ pc = "threads"
    /\ \E t \in Threads :
          /\ runs[t].pc = "created"
          /\ runs' = [runs EXCEPT ![t] = run_enter(@, CUSTOM_INDICATORS)]
    /\ UNCHANGED <<idleVars, CUSTOM_INDICATORS>>

ThreadPrepare ==
    /\ pc = "threads"
    /\ \E t \in Threads :
          /\ runs[t].pc = "prepare"
          /\ runs' = [runs EXCEPT ![t] = run_prepare(@, Computed(runs[t]))]
    /\ UNCHANGED <<idleVars, CUSTOM_INDICATORS>>

ThreadBar ==
    /\ pc = "threads"
    /\ \E t \in Threads :
          /\ runs[t].pc = "loop"
          /\ runs' = [runs EXCEPT ![t] = run_bar(@)]
    /\ UNCHANGED <<idleVars, CUSTOM_INDICATORS>>

\* register_custom_indicator(name, cls), called by the loader of another
\* request (indicators.py:211-218)
register_custom_indicator(name) ==
    /\ pc = "threads"
    /\ name \notin CUSTOM_INDICATORS
    /\ CUSTOM_INDICATORS' = CUSTOM_INDICATORS \cup {name}
    /\ UNCHANGED <<idleVars, runs>>

RegisterCustomIndicator ==
    \E name \in {"MyIndicator", "sma"} : register_custom_indicator(name)

\* the frames of a run: symbol A alone, or A and B, on every day
ThreadData ==
    {[i \in 1..n |->
         LET symbol == IF i = 1 THEN "A" ELSE "B"
         IN  [symbol |-> symbol, df |-> [d \in Dates |-> Close(symbol, d)],
              columns |-> OHLCV]] : n \in 1..2}

ThreadStrategies ==
    {StrategyInstance(cls, l) :
        cls \in {"AlwaysBuyStrategy", "BuyAndSellStrategy"},
        l \in {<<>>, <<MyIndicator>>}}

InitThreads ==
    /\ \E params \in SessionParams :
          runs \in [Threads -> {RunLocals(params, st, d) :
                                  st \in ThreadStrategies, d \in ThreadData}]
    /\ CUSTOM_INDICATORS \in {{}, {"MyIndicator"}}
    /\ pc = "threads"
    /\ portfolio = NoPortfolio
    /\ engine = [initial_capital |-> Zero, commission_rate |-> Zero]
    /\ lastCall = NoCall
    /\ nCalls = 0
    /\ made = 0
    /\ data = <<>>
    /\ prepared_data = <<>>
    /\ trading_dates = <<>>
    /\ dateIdx = 0
    /\ callbacks = <<>>
    /\ error = ""
    /\ strategy = NoStrategy
    /\ metrics = NoMetrics

NextThreads ==
    \/ ThreadEnter
    \/ ThreadPrepare
    \/ ThreadBar
    \/ RegisterCustomIndicator

SpecThreads == InitThreads /\ [][NextThreads]_vars

----------------------------------------------------------------------------
(* Properties of concurrent runs (checked under SpecThreads)               *)

\* get_indicator_registry when the custom registry is `custom`
RegistryWith(custom) ==
    [name \in BUILTIN_INDICATORS \cup custom |->
        IF name \in BUILTIN_INDICATORS THEN "function" ELSE "class"]

\* what compute_indicators gives for the frame the loop of run r is at when
\* the custom registry is the one run r was entered with
ComputedAlone(r) ==
    IF /\ r.i <= Len(r.data)
       /\ DOMAIN r.data[r.i].df # {}
       /\ Len(r.strategy.indicators) > 0
    THEN LET loop == ConfigLoop(r.data[r.i].columns, r.strategy.indicators,
                                1, RegistryWith(r.seen))
         IN  [raised |-> loop.raised,
              result |-> [r.data[r.i] EXCEPT !.columns = loop.columns]]
    ELSE NotComputed

RECURSIVE Finish(_)
\* run r carried to its end with nothing else going on
Finish(r) ==
    IF r.pc \in {"returned", "raised"} THEN r
    ELSE IF r.pc = "prepare" THEN Finish(run_prepare(r, ComputedAlone(r)))
    ELSE Finish(run_bar(r))

\* the run of thread t executed alone, from the state it was entered in
Alone(t) ==
    LET r == runs[t]
        fresh == StrategyInstance(r.strategy.cls, r.strategy.indicators)
    IN  Finish(run_enter(RunLocals(r.engine, fresh, r.data), r.seen))

\* C21: two runs with their own engine, Strategy instance and Portfolio do
\* not interfere under any interleaving of their steps, custom indicators
\* being registered meanwhile or not: when a run is over, its trade log and
\* its equity_history are those of the same run executed alone.
C21_RunsDoNotInterfere ==
    \A t \in Threads :
        runs[t].pc \in {"returned", "raised"} =>
            /\ runs[t].pc = Alone(t).pc
            /\ runs[t].portfolio.trades = Alone(t).portfolio.trades
            /\ runs[t].portfolio.equity_history =
                   Alone(t).portfolio.equity_history

====
